---------------------------- MODULE Spec2Model ----------------------------
(***************************************************************************)
(* Sales-returns reconciliation engine of sales-analysis-toolkit-cli:      *)
(* product-code normalizer, margin normalization, loader cache, loader     *)
(* enrichment and the returns linkage views.                               *)
(*                                                                         *)
(* Text is modelled as a sequence of one-character strings.  A cell value  *)
(* is a record [kind, num, txt]: kind "null" (None/NaN), "int" (num is the *)
(* integer), "float" (num counts halves, so every float of the model is    *)
(* exactly representable and prints exactly under the "f" format),         *)
(* "inf" (a non-finite float) or "str" (txt is the text).                  *)
(***************************************************************************)
EXTENDS Integers, Sequences, FiniteSets, TLC

VARIABLES
    nIn,      \* normalizer: the value handed to normalize_product_codes
    nOnce,    \* normalizer: normalize(x)
    nTwice,   \* normalizer: normalize(normalize(x))
    pcN,      \* normalizer: "in" -> "once" -> "twice"
    mIn,      \* margin: the parsed perc_margem_bruta cell
    mOnce,    \* margin: the cell after _coerce_numeric
    mTwice,   \* margin: the cell after _coerce_numeric ran on it again
    pcM,      \* margin: "in" -> "once" -> "twice"
    clock,        \* cache: the file system's current timestamp
    src,          \* cache: the workbook, [ver, mtime]
    cache,        \* cache: the snapshot file, [exists, mtime, bytes]
    enableCache,  \* cache: SalesDataLoader.enable_cache
    pcL,          \* cache: where load() stands
    work,         \* cache: the frame load() computed from the workbook
    result,       \* cache: the frame load() returned
    how,          \* cache: "cache" or "source", where result came from
    stamp,        \* cache: the two timestamps _try_load_cache compared
    curClean,     \* cache: the workbook was not modified since this load began
    prevLoad,     \* cache: the load before this one, [valid, frame, how]
    sales,        \* views: the sales sheet rows handed to _enrich
    returns,      \* views: the return sheet rows handed to _enrich
    category,     \* views: the category filter ("" is no filter)
    pcV,          \* views: "raw" -> "loaded" -> "returns" -> "focus"
    loaded,       \* views: the frame _enrich returned, [df, returns_data]
    retViews,     \* views: the two results of _build_return_view, [sale, ret]
    retTables,    \* views: the two tables of build_return_analysis, [sale, ret]
    focusMerged,  \* views: the three results of _merge_return_totals
    focusTables,  \* views: the three tables of build_product_focus_analysis
    race,         \* cache: another loader writing the same snapshot, [pc, frame]
    wb,           \* load: the workbook and the snapshot load() finds
    cb,           \* load: the progress callback, "none", "ok" or "raises"
    ldr,          \* load: where load() stands and what it has done so far
    arg,          \* call: the arguments of the function called
    ret,          \* call: what the call returned
    pcF           \* call: "in" -> "out"

normVars == <<nIn, nOnce, nTwice, pcN>>
marginVars == <<mIn, mOnce, mTwice, pcM>>
cacheVars ==
    <<clock, src, cache, enableCache, pcL, work, result, how, stamp, curClean, prevLoad>>
viewVars == <<sales, returns, category, pcV, loaded, retViews, retTables,
             focusMerged, focusTables>>
raceVars == <<race>>
loadVars == <<wb, cb, ldr>>
callVars == <<arg, ret, pcF>>
restVars == <<raceVars, loadVars, callVars>>
vars == <<normVars, marginVars, cacheVars, viewVars, restVars>>

-----------------------------------------------------------------------------
(* Bounds *)

MaxLen == 5        \* longest enumerated text
MaxCode == 12      \* largest magnitude of an enumerated integral code
MaxZeros == 2      \* most zeros written after the '.' of an integral code
MaxMargin == 12000 \* largest enumerated margin cell, in hundredths (120.00)
MaxClock == 2      \* last timestamp of the file system's clock
MaxVer == 2        \* number of times the workbook is modified
MaxSales == 2      \* most rows of the sales sheet
MaxReturns == 2    \* most rows of the return sheet
MaxSheets == 2     \* most sheets of a workbook
MaxIdLen == 4      \* longest invoice number of a return row
MaxRows == 3       \* most rows of the frame a ranking builder gets

-----------------------------------------------------------------------------
(* Text helpers (Python str methods used by the normalizer) *)

Alphabet == {"0", "1", ".", " ", "n", "a"}

DigitChars == <<"0", "1", "2", "3", "4", "5", "6", "7", "8", "9">>

Upper == <<"A", "D", "E", "L", "N", "O", "S", "T", "U", "V", "X">>
Lower == <<"a", "d", "e", "l", "n", "o", "s", "t", "u", "v", "x">>

\* str.lower() on one character
LowerChar(c) ==
    IF \E i \in 1..Len(Upper) : Upper[i] = c
    THEN Lower[CHOOSE i \in 1..Len(Upper) : Upper[i] = c]
    ELSE c

\* str.lower()
LowerText(s) == [i \in 1..Len(s) |-> LowerChar(s[i])]

IsSpace(c) == c = " "

\* str.strip(): drop leading and trailing whitespace
StripText(s) ==
    LET keep == {i \in 1..Len(s) : ~IsSpace(s[i])}
    IN  IF keep = {} THEN <<>>
        ELSE LET lo == CHOOSE i \in keep : \A j \in keep : i <= j
                 hi == CHOOSE i \in keep : \A j \in keep : j <= i
             IN  SubSeq(s, lo, hi)

\* "." in text
HasDot(s) == \E i \in 1..Len(s) : s[i] = "."

\* index of the first '.', the place text.split(".", 1) cuts at
FirstDot(s) == CHOOSE i \in 1..Len(s) : s[i] = "." /\ \A j \in 1..(i - 1) : s[j] # "."

\* fractional.strip("0") == ""
OnlyZeros(s) == \A i \in 1..Len(s) : s[i] = "0"

RECURSIVE NatText(_)
\* str(n) for n >= 0
NatText(n) ==
    IF n < 10 THEN <<DigitChars[n + 1]>>
    ELSE NatText(n \div 10) \o <<DigitChars[(n % 10) + 1]>>

\* str(int(value))
IntText(n) == IF n < 0 THEN <<"-">> \o NatText(-n) ELSE NatText(n)

\* f"{value:f}" of the float h/2: six decimals
FloatText(h) ==
    LET mag == IF h < 0 THEN -h ELSE h
        frac == IF mag % 2 = 1 THEN <<"5", "0", "0", "0", "0", "0">>
                ELSE <<"0", "0", "0", "0", "0", "0">>
    IN  (IF h < 0 THEN <<"-">> ELSE <<>>) \o NatText(mag \div 2) \o <<".">> \o frac

NullWords ==
    {<<>>, <<"n", "a", "n">>, <<"n", "o", "n", "e">>, <<"n", "u", "l", "l">>}

-----------------------------------------------------------------------------
(* Product-code normalizer *)

NullValue == [kind |-> "null", num |-> 0, txt |-> <<>>]
InfValue == [kind |-> "inf", num |-> 0, txt |-> <<>>]
IntValue(n) == [kind |-> "int", num |-> n, txt |-> <<>>]
FloatValue(h) == [kind |-> "float", num |-> h, txt |-> <<>>]
StrValue(s) == [kind |-> "str", num |-> 0, txt |-> s]

\* the trailing ".000" cut of _normalize, a variant that keeps the fraction
NormalizeTextKeepFraction(s) ==
    LET text == StripText(s)
    IN  IF LowerText(text) \in NullWords THEN <<>> ELSE text

\* _normalize from `text = str(value).strip()` on
NormalizeText(s) ==
    LET text == StripText(s)
    IN  IF LowerText(text) \in NullWords THEN <<>>
        ELSE IF HasDot(text)
                /\ OnlyZeros(SubSeq(text, FirstDot(text) + 1, Len(text)))
             THEN SubSeq(text, 1, FirstDot(text) - 1)
             ELSE text

\* _normalize: one value to its canonical text
Normalize(v) ==
    CASE v.kind = "null" -> <<>>
      [] v.kind = "int" -> IntText(v.num)
      [] v.kind = "inf" -> <<>>
      [] v.kind = "float" ->
            IF v.num % 2 = 0 THEN IntText(v.num \div 2)
            ELSE NormalizeText(FloatText(v.num))
      [] OTHER -> NormalizeText(v.txt)

RECURSIVE TextsOfLen(_)
TextsOfLen(n) ==
    IF n = 0 THEN {<<>>}
    ELSE {Append(s, c) : s \in TextsOfLen(n - 1), c \in Alphabet}

Texts == UNION {TextsOfLen(n) : n \in 0..MaxLen}

RECURSIVE Zeros(_)
Zeros(k) == IF k = 0 THEN <<>> ELSE Append(Zeros(k - 1), "0")

\* the ways the model writes the integral code n as text: "n", "n.", "n.0", ...
IntegralTexts(n) ==
    {IntText(n)} \cup {IntText(n) \o <<".">> \o Zeros(k) : k \in 1..MaxZeros}

ExtraTexts ==
    { <<"N", "a", "N">>, <<"N", "o", "n", "e">>, <<"n", "u", "l", "l">>,
      <<"N", "U", "L", "L", ".", "0">>, <<"a", "b", ".", "c">> }

NormInputs ==
    {NullValue, InfValue}
    \cup {IntValue(n) : n \in (-MaxCode)..MaxCode}
    \cup {FloatValue(h) : h \in (-2 * MaxCode)..(2 * MaxCode)}
    \cup {StrValue(s) : s \in Texts \cup ExtraTexts}
    \cup {StrValue(s) : s \in UNION {IntegralTexts(n) : n \in (-MaxCode)..MaxCode}}

NormIdle ==
    /\ nIn = NullValue
    /\ nOnce = <<>>
    /\ nTwice = <<>>
    /\ pcN = "off"

NormInit ==
    /\ nIn \in NormInputs
    /\ nOnce = <<>>
    /\ nTwice = <<>>
    /\ pcN = "in"

\* normalize_product_codes on the raw column
NormalizeOnce ==
    /\ pcN = "in"
    /\ nOnce' = Normalize(nIn)
    /\ pcN' = "once"
    /\ UNCHANGED <<nIn, nTwice, marginVars, cacheVars, viewVars,
                   restVars>>

\* normalize_product_codes on an already normalized column (a column of str)
NormalizeTwice ==
    /\ pcN = "once"
    /\ nTwice' = Normalize(StrValue(nOnce))
    /\ pcN' = "twice"
    /\ UNCHANGED <<nIn, nOnce, marginVars, cacheVars, viewVars,
                   restVars>>

-----------------------------------------------------------------------------
(* Margin normalization of _coerce_numeric.  A numeric cell is a record      *)
(* [nan, val]; val counts millionths, so that two divisions by 100 of a      *)
(* value given in hundredths are exact.                                      *)

Unit == 100 * 100 * 100          \* the number 1
NaNCell == [nan |-> TRUE, val |-> 0]
NumCell(v) == [nan |-> FALSE, val |-> v]

\* a variant of the rule that divides every cell
MarginRuleAlways(c) == IF c.nan THEN c ELSE NumCell(c.val \div 100)

\* np.where(col > 1, col / 100, col) on the cells that are not NaN
MarginRule(c) ==
    IF c.nan THEN c
    ELSE IF c.val > Unit THEN NumCell(c.val \div 100) ELSE c

MarginInputs == {NaNCell} \cup {NumCell(h * 100 * 100) : h \in 0..MaxMargin}

MarginIdle ==
    /\ mIn = NaNCell
    /\ mOnce = NaNCell
    /\ mTwice = NaNCell
    /\ pcM = "off"

MarginInit ==
    /\ mIn \in MarginInputs
    /\ mOnce = NaNCell
    /\ mTwice = NaNCell
    /\ pcM = "in"

\* _coerce_numeric at load time
CoerceMargin ==
    /\ pcM = "in"
    /\ mOnce' = MarginRule(mIn)
    /\ pcM' = "once"
    /\ UNCHANGED <<mIn, mTwice, normVars, cacheVars, viewVars,
                   restVars>>

\* _coerce_numeric on a column it has already normalized
CoerceMarginAgain ==
    /\ pcM = "once"
    /\ mTwice' = MarginRule(mOnce)
    /\ pcM' = "twice"
    /\ UNCHANGED <<mIn, mOnce, normVars, cacheVars, viewVars,
                   restVars>>

-----------------------------------------------------------------------------
(* Loader cache: SalesDataLoader.load with _try_load_cache and _store_cache. *)
(* The workbook's content is a version number; the frame computed from it    *)
(* carries the version in its rows and in its attrs["returns_data"].  A      *)
(* snapshot file holds the pickled frame as a sequence; a truncated sequence *)
(* is a corrupt snapshot, which read_pickle refuses.                         *)

NoFrame == [rows |-> -1, returns_data |-> -1]

\* _read_group, _coerce_numeric and _enrich on the workbook's content
ReadAndEnrich(ver) == [rows |-> ver, returns_data |-> ver]

\* a pickling that loses the frame's attrs
ToPickleNoAttrs(f) == <<"frame", f.rows, "attrs", -1>>

\* df.to_pickle: the frame and its attrs
ToPickle(f) == <<"frame", f.rows, "attrs", f.returns_data>>

\* whether pd.read_pickle accepts the bytes
WellFormed(b) == Len(b) = 4 /\ b[1] = "frame" /\ b[3] = "attrs"

\* pd.read_pickle on accepted bytes
FromPickle(b) == [rows |-> b[2], returns_data |-> b[4]]

\* the negation of `cache_path.stat().st_mtime < self.excel_path.stat().st_mtime`
CacheFresh(c, s) == ~(c.mtime < s.mtime)

NoCache == [exists |-> FALSE, mtime |-> 0, bytes |-> <<>>]
NoStamp == [c |-> 0, s |-> 0]
NoPrev == [valid |-> FALSE, frame |-> NoFrame, how |-> "none"]

CacheIdle ==
    /\ clock = 0
    /\ src = [ver |-> 0, mtime |-> 0]
    /\ cache = NoCache
    /\ enableCache = FALSE
    /\ pcL = "off"
    /\ work = NoFrame
    /\ result = NoFrame
    /\ how = "none"
    /\ stamp = NoStamp
    /\ curClean = FALSE
    /\ prevLoad = NoPrev

CacheInit ==
    /\ clock = 0
    /\ src = [ver |-> 0, mtime |-> 0]
    /\ cache = NoCache
    /\ enableCache \in BOOLEAN
    /\ pcL = "idle"
    /\ work = NoFrame
    /\ result = NoFrame
    /\ how = "none"
    /\ stamp = NoStamp
    /\ curClean = FALSE
    /\ prevLoad = NoPrev

\* load() is called; _try_load_cache returns None at once when caching is off
StartLoad ==
    /\ pcL \in {"idle", "done", "failed"}
    /\ pcL' = IF enableCache THEN "exists" ELSE "read"
    /\ prevLoad' = IF pcL = "done"
                   THEN [valid |-> curClean, frame |-> result, how |-> how]
                   ELSE NoPrev
    /\ curClean' = TRUE
    /\ work' = NoFrame
    /\ result' = NoFrame
    /\ how' = "none"
    /\ stamp' = NoStamp
    /\ UNCHANGED <<clock, src, cache, enableCache, normVars, marginVars, viewVars,
                   restVars>>

\* `if not cache_path.exists(): return None`
CheckExists ==
    /\ pcL = "exists"
    /\ pcL' = IF cache.exists THEN "stat" ELSE "read"
    /\ UNCHANGED <<clock, src, cache, enableCache, work, result, how, stamp,
                   curClean, prevLoad, normVars, marginVars, viewVars,
                   restVars>>

\* `if cache_path.stat().st_mtime < self.excel_path.stat().st_mtime: return None`;
\* stat() of a file that is gone raises FileNotFoundError out of load()
CheckMtime ==
    /\ pcL = "stat"
    /\ IF ~cache.exists
       THEN /\ pcL' = "failed"
            /\ stamp' = stamp
       ELSE /\ pcL' = IF CacheFresh(cache, src) THEN "unpickle" ELSE "read"
            /\ stamp' = [c |-> cache.mtime, s |-> src.mtime]
    /\ UNCHANGED <<clock, src, cache, enableCache, work, result, how,
                   curClean, prevLoad, normVars, marginVars, viewVars,
                   restVars>>

\* `try: return pd.read_pickle(cache_path) except Exception: return None`
ReadPickle ==
    /\ pcL = "unpickle"
    /\ IF cache.exists /\ WellFormed(cache.bytes)
       THEN /\ result' = FromPickle(cache.bytes)
            /\ how' = "cache"
            /\ pcL' = "done"
       ELSE /\ pcL' = "read"
            /\ UNCHANGED <<result, how>>
    /\ UNCHANGED <<clock, src, cache, enableCache, work, stamp,
                   curClean, prevLoad, normVars, marginVars, viewVars,
                   restVars>>

\* the reload from the workbook: _read_group, _coerce_numeric, _enrich
ReadSource ==
    /\ pcL = "read"
    /\ work' = ReadAndEnrich(src.ver)
    /\ pcL' = "store"
    /\ UNCHANGED <<clock, src, cache, enableCache, result, how, stamp,
                   curClean, prevLoad, normVars, marginVars, viewVars,
                   restVars>>

\* _store_cache, then `return enriched`: the write succeeds, or fails and
\* leaves the file as it was, or fails and leaves a truncated file
StoreCache ==
    /\ pcL = "store"
    /\ IF enableCache
       THEN \/ cache' = [exists |-> TRUE, mtime |-> clock, bytes |-> ToPickle(work)]
            \/ cache' = cache
            \/ \E k \in 0..3 :
                 cache' = [exists |-> TRUE, mtime |-> clock,
                           bytes |-> SubSeq(ToPickle(work), 1, k)]
       ELSE cache' = cache
    /\ result' = work
    /\ how' = "source"
    /\ pcL' = "done"
    /\ UNCHANGED <<clock, src, enableCache, work, stamp,
                   curClean, prevLoad, normVars, marginVars, viewVars,
                   restVars>>

\* time passes
Tick ==
    /\ pcL # "off"
    /\ clock < MaxClock
    /\ clock' = clock + 1
    /\ UNCHANGED <<src, cache, enableCache, pcL, work, result, how, stamp,
                   curClean, prevLoad, normVars, marginVars, viewVars,
                   restVars>>

\* somebody saves the workbook with new content
ModifySource ==
    /\ pcL # "off"
    /\ src.ver < MaxVer
    /\ src' = [ver |-> src.ver + 1, mtime |-> clock]
    /\ curClean' = FALSE
    /\ prevLoad' = [prevLoad EXCEPT !.valid = FALSE]
    /\ UNCHANGED <<clock, cache, enableCache, pcL, work, result, how, stamp,
                   normVars, marginVars, viewVars,
                   restVars>>

\* somebody deletes the snapshot file ("may be deleted freely")
DeleteCache ==
    /\ pcL # "off"
    /\ cache.exists
    /\ cache' = NoCache
    /\ UNCHANGED <<clock, src, enableCache, pcL, work, result, how, stamp,
                   curClean, prevLoad, normVars, marginVars, viewVars,
                   restVars>>

\* the snapshot file is damaged: it loses its tail
CorruptCache ==
    /\ pcL # "off"
    /\ cache.exists
    /\ Len(cache.bytes) > 0
    /\ \E k \in 0..(Len(cache.bytes) - 1) :
         cache' = [cache EXCEPT !.bytes = SubSeq(cache.bytes, 1, k)]
    /\ UNCHANGED <<clock, src, enableCache, pcL, work, result, how, stamp,
                   curClean, prevLoad, normVars, marginVars, viewVars,
                   restVars>>

-----------------------------------------------------------------------------
(* Two workbooks and one cache directory.  Here src maps a workbook to its *)
(* [stem, sheets, ver, mtime], the content ver being <<workbook, n>>, and  *)
(* cache is the set of the snapshot files [name, mtime, bytes] of the      *)
(* directory.  pcL is the workbook whose load() has just returned.         *)

SourceFiles == {"A", "B"}

\* _build_signature and the fingerprint of _cache_path: the sheet names;
\* the digest of the fingerprint is taken to be one-to-one
BuildSignature(sheets) == sheets

\* _cache_path with a cache_dir: f"{self.excel_path.stem}_{digest}.pkl"
CachePath(f) == <<f.stem, BuildSignature(f.sheets)>>

\* _try_load_cache: the snapshots load() of f would return
TryLoadCache(f) ==
    {c \in cache : /\ c.name = CachePath(f)
                   /\ CacheFresh(c, f)
                   /\ WellFormed(c.bytes)}

TwoFilesInit ==
    /\ clock = 0
    /\ src \in [SourceFiles -> [stem : {"s", "t"},
                                sheets : {{"V"}, {"V", "D"}},
                                ver : {<<"A", 0>>, <<"B", 0>>},
                                mtime : {0}]]
    /\ \A f \in SourceFiles : src[f].ver[1] = f
    /\ src["A"].stem = "s"
    /\ src["A"].sheets = {"V"}
    /\ cache = {}
    /\ enableCache = TRUE
    /\ pcL = "idle"
    /\ work = NoFrame
    /\ result = NoFrame
    /\ how = "none"
    /\ stamp = NoStamp
    /\ curClean = FALSE
    /\ prevLoad = NoPrev

\* SalesDataLoader(f, cache_dir=...).load(): the snapshot when there is a
\* fresh one under the path of f, else the read and the store
LoadFile(f) ==
    /\ pcL \in {"idle"} \cup SourceFiles
    /\ IF TryLoadCache(src[f]) # {}
       THEN /\ result' = FromPickle((CHOOSE c \in TryLoadCache(src[f]) :
                                         TRUE).bytes)
            /\ how' = "cache"
            /\ cache' = cache
       ELSE /\ result' = ReadAndEnrich(src[f].ver)
            /\ how' = "source"
            /\ cache' = {c \in cache : c.name # CachePath(src[f])}
                        \cup {[name |-> CachePath(src[f]), mtime |-> clock,
                               bytes |-> ToPickle(ReadAndEnrich(src[f].ver))]}
    /\ pcL' = f
    /\ UNCHANGED <<clock, src, enableCache, work, stamp, curClean, prevLoad,
                   normVars, marginVars, viewVars, restVars>>

\* somebody saves workbook f with new content
SaveFile(f) ==
    /\ pcL \in {"idle"} \cup SourceFiles
    /\ src[f].ver[2] < MaxVer
    /\ src' = [src EXCEPT ![f].ver = <<f, @[2] + 1>>, ![f].mtime = clock]
    /\ pcL' = "idle"
    /\ UNCHANGED <<clock, cache, enableCache, work, result, how, stamp,
                   curClean, prevLoad, normVars, marginVars, viewVars,
                   restVars>>

\* time passes between two loads
TickFiles ==
    /\ pcL \in {"idle"} \cup SourceFiles
    /\ clock < MaxClock
    /\ clock' = clock + 1
    /\ pcL' = "idle"
    /\ UNCHANGED <<src, cache, enableCache, work, result, how, stamp,
                   curClean, prevLoad, normVars, marginVars, viewVars,
                   restVars>>

-----------------------------------------------------------------------------
(* Frames.  A frame is a sequence of rows (records).  Dates are day numbers, *)
(* DaysPerMonth to a month; NaT is the unparseable date and the missing      *)
(* period.  Invoice numbers, categories and descriptions are atoms; product  *)
(* codes are texts, because the normalizer works on their characters.        *)
(* Revenue, cost and price columns are left out: they are summed beside the  *)
(* units and enter no rate.  The order of the rows of a result is left out:  *)
(* a result is the set of its rows.                                          *)

NaT == 0
DaysPerMonth == 2

\* Series.dt.to_period("M")
PeriodOf(d) == IF d = NaT THEN NaT ELSE ((d - 1) \div DaysPerMonth) + 1

Range(f) == {f[i] : i \in DOMAIN f}

RECURSIVE SumQtd(_)
\* Series.sum() of the units column
SumQtd(f) == IF f = <<>> THEN 0 ELSE Head(f).qtd + SumQtd(Tail(f))

RECURSIVE SeqOfSet(_)
SeqOfSet(S) ==
    IF S = {} THEN <<>>
    ELSE LET x == CHOOSE y \in S : TRUE IN <<x>> \o SeqOfSet(S \ {x})

RECURSIVE NonDecreasing(_, _)
\* the index sequences of length k over 1..n that never decrease
NonDecreasing(n, k) ==
    IF k = 0 THEN {<<>>}
    ELSE {Append(q[1], q[2]) :
            q \in {p \in NonDecreasing(n, k - 1) \X (1..n) :
                     p[1] = <<>> \/ p[1][Len(p[1])] <= p[2]}}

\* the frames of at most n rows drawn from U, one sequence per multiset
Frames(U, n) ==
    LET us == SeqOfSet(U)
    IN  UNION {{[i \in 1..k |-> us[ix[i]]] : ix \in NonDecreasing(Len(us), k)} :
               k \in 0..n}

-----------------------------------------------------------------------------
(* Rates.  A rate is a record [kind, n, d]: the number n/d, or the NaN or    *)
(* infinity a float division by zero leaves.                                 *)

Ratio(a, b) == [kind |-> "num", n |-> a, d |-> b]
ZeroRate == Ratio(0, 1)

\* numpy's a / b
Divide(a, b) ==
    IF b = 0
    THEN IF a = 0 THEN [kind |-> "nan", n |-> 0, d |-> 1]
         ELSE [kind |-> "inf", n |-> 0, d |-> 1]
    ELSE Ratio(a, b)

\* np.divide(devol, base, out=zeros, where=base > 0) and
\* np.where(sold > 0, returned / sold, 0)
SafeDivide(a, b) == IF b > 0 THEN Divide(a, b) ELSE ZeroRate

\* round half to even of a / b, for b > 0
RoundDiv(a, b) ==
    LET q == a \div b
        r == a % b
    IN  IF 2 * r < b THEN q
        ELSE IF 2 * r > b THEN q + 1
        ELSE IF q % 2 = 0 THEN q ELSE q + 1

\* format_percentage_columns on a numeric column: fillna(0), round(6)
FormatRate(x) ==
    IF x.kind = "nan" THEN Ratio(0, Unit)
    ELSE IF x.kind = "inf" THEN x
    ELSE Ratio(RoundDiv(x.n * Unit, x.d), Unit)

-----------------------------------------------------------------------------
(* SalesDataLoader._enrich *)

\* `astype(str).str.strip()`, then `replace("nan", "")`
LoaderText(s) ==
    LET t == StripText(s) IN IF t = <<"n", "a", "n">> THEN <<>> ELSE t

\* returns.groupby(["nr_nota_fiscal", "cd_produto"]).agg(sum) merged onto the
\* sales row with how="left", then fillna(0.0)
ReturnedFor(r, rets) ==
    SumQtd(SelectSeq(rets, LAMBDA x : x.nf = r.nf /\ x.cd = LoaderText(r.cd)))

\* one sales row, enriched
EnrichRow(r, rets) ==
    LET devol == ReturnedFor(r, rets)
    IN  [nf |-> r.nf, cat |-> r.cat, an |-> r.an, cd |-> LoaderText(r.cd),
         data |-> r.data, periodo |-> PeriodOf(r.data), qtd |-> r.qtd,
         qtd_devolvido |-> devol,
         taxa_devolucao |-> SafeDivide(devol, r.qtd)]

\* one return row of attrs["returns_data"]
EnrichReturn(x) ==
    [nf |-> x.nf, nfd |-> x.nfd, cat |-> x.cat, cd |-> x.cd, ds |-> x.ds,
     data_venda |-> x.data_venda, data_devolucao |-> x.data_devolucao,
     periodo_venda |-> PeriodOf(x.data_venda),
     periodo_devolucao |-> PeriodOf(x.data_devolucao), qtd |-> x.qtd]

\* _enrich(sales_df, returns_df)
Enrich(s, rets) ==
    IF s = <<>>
    THEN [df |-> <<>>, returns_data |-> <<>>]
    ELSE [df |-> [i \in 1..Len(s) |-> EnrichRow(s[i], rets)],
          returns_data |-> [i \in 1..Len(rets) |-> EnrichReturn(rets[i])]]

-----------------------------------------------------------------------------
(* reporting/returns.py *)

\* _filter_by_category
FilterByCategory(df, cat) ==
    IF cat = "" THEN df ELSE SelectSeq(df, LAMBDA r : r.cat = cat)

\* _filter_returns_dataset
FilterReturnsDataset(rd, cat) ==
    IF rd = <<>> THEN <<>>
    ELSE IF cat = "" THEN rd ELSE SelectSeq(rd, LAMBDA r : r.cat = cat)

\* _build_sales_totals: units sold per (period, normalized product)
BuildSalesTotals(df) ==
    LET keys == {<<r.periodo, NormalizeText(r.cd)>> : r \in Range(df)}
    IN  {[periodo |-> k[1], cd |-> k[2],
          itens_vendidos |-> SumQtd(SelectSeq(df, LAMBDA r :
              r.periodo = k[1] /\ NormalizeText(r.cd) = k[2]))] : k \in keys}

\* pedido_devolucao_id of _prepare_returns_dataset
PedidoDevolucaoId(x) == IF x.nfd \in {"", "nan", "None"} THEN x.nf ELSE x.nfd

\* _prepare_returns_dataset
PrepareReturnsDataset(rd) ==
    [i \in 1..Len(rd) |->
        [nf |-> rd[i].nf, cat |-> rd[i].cat, cd |-> NormalizeText(rd[i].cd),
         ds |-> rd[i].ds, data_venda |-> rd[i].data_venda,
         periodo_venda |-> rd[i].periodo_venda,
         periodo_devolucao |-> rd[i].periodo_devolucao, qtd |-> rd[i].qtd,
         pedido_devolucao_id |-> PedidoDevolucaoId(rd[i])]]

\* a grouping of the return rows by invoice instead of product
ReturnGroupKeyByInvoice(x, col) == <<x[col], <<x.nf>>, x.ds>>

\* group_keys = ["periodo", "cd_produto", "ds_produto"]
ReturnGroupKey(x, col) == <<x[col], x.cd, x.ds>>

\* the rows `devolucoes.merge(sales_lookup, on=["periodo", "cd_produto"],
\* how="left")` gives for one group of returns, with the rate
ReturnViewRows(g, members, lookup) ==
    LET hits == {t \in lookup : t.periodo = g[1] /\ t.cd = g[2]}
    IN  {[periodo |-> g[1], cd |-> g[2], ds |-> g[3],
          itens_vendidos |-> v, itens_devolvidos |-> SumQtd(members),
          pedidos_devolvidos |->
              Cardinality({x.pedido_devolucao_id : x \in Range(members)}),
          taxa_devolucao |-> SafeDivide(SumQtd(members), v)]
         : v \in IF hits = {} THEN {0} ELSE {t.itens_vendidos : t \in hits}}

\* _build_return_view
\* the grouping and the merge of _build_return_view
GroupAndMerge(working, col, lookup) ==
    UNION {ReturnViewRows(g,
               SelectSeq(working, LAMBDA x : ReturnGroupKey(x, col) = g),
               lookup) : g \in {ReturnGroupKey(x, col) : x \in Range(working)}}

\* _build_return_view
BuildReturnView(prepared, col, salesTotals, salesBase, periodFilter) ==
    LET totals == IF salesTotals = {} /\ salesBase # <<>>
                  THEN BuildSalesTotals(salesBase) ELSE salesTotals
    IN  GroupAndMerge(
            SelectSeq(prepared, LAMBDA x :
                x[col] # NaT /\ (periodFilter # {} => x[col] \in periodFilter)),
            col,
            {[periodo |-> t.periodo, cd |-> NormalizeText(t.cd),
              itens_vendidos |-> t.itens_vendidos] : t \in totals})

\* format_percentage_columns(view, ["taxa_devolucao"])
FormatReturnView(view) ==
    {[r EXCEPT !.taxa_devolucao = FormatRate(r.taxa_devolucao)] : r \in view}

\* the two calls of _build_return_view in build_return_analysis
BothViews(prepared, salesTotals, salesBase, available) ==
    [sale |-> BuildReturnView(prepared, "periodo_venda", salesTotals,
                              salesBase, available),
     ret |-> BuildReturnView(prepared, "periodo_devolucao", salesTotals,
                             salesBase, available)]

\* the two views of build_return_analysis, before formatting
ReturnViews(ld, cat) ==
    BothViews(PrepareReturnsDataset(FilterReturnsDataset(ld.returns_data, cat)),
              BuildSalesTotals(FilterByCategory(ld.df, cat)),
              FilterByCategory(ld.df, cat),
              {t.periodo : t \in BuildSalesTotals(FilterByCategory(ld.df, cat))})

-----------------------------------------------------------------------------
(* reporting/product_focus.py.  The listing's description, manufacturer and  *)
(* type are left out of the grouping columns: they are one per listing.      *)

RECURSIVE SumDevolvido(_)
\* Series.sum() of qtd_devolvido
SumDevolvido(f) ==
    IF f = <<>> THEN 0 ELSE Head(f).qtd_devolvido + SumDevolvido(Tail(f))

\* the focus frame of build_product_focus_analysis, product_codes not given
FocusFrame(ld, cat) ==
    LET data == FilterByCategory(ld.df, cat)
        dated == SelectSeq(data, LAMBDA r : r.data # NaT)
    IN  [i \in 1..Len(dated) |->
            [dated[i] EXCEPT !.cd = NormalizeText(dated[i].cd)]]

\* group_cols of the three aggregates
ResumoGroupCols == <<"an", "cat">>
DiariaGroupCols == <<"data", "an", "cat">>
MensalGroupCols == <<"periodo", "an", "cat">>

\* the values of a row in the grouping columns
GroupKey(r, groupCols) == [i \in 1..Len(groupCols) |-> r[groupCols[i]]]

\* the aggregated row of one group of _aggregate_metrics
AggregateRow(k, members, sold, devol) ==
    [key |-> k,
     cd |-> members[1].cd,
     qtd_pedidos |-> Cardinality({r.nf : r \in Range(members)}),
     itens_vendidos |-> sold,
     itens_devolvidos |-> devol,
     taxa_devolucao |-> SafeDivide(devol, sold)]

\* _aggregate_metrics(df, group_cols)
AggregateMetrics(focus, groupCols) ==
    {LET members == SelectSeq(focus, LAMBDA r : GroupKey(r, groupCols) = k)
     IN  AggregateRow(k, members, SumQtd(members), SumDevolvido(members))
     : k \in {GroupKey(r, groupCols) : r \in Range(focus)}}

\* the smallest and the largest of a non-empty set of dates, NaT skipped
MinDate(D) == CHOOSE d \in D \ {NaT} : \A e \in D \ {NaT} : d <= e
MaxDate(D) == CHOOSE d \in D \ {NaT} : \A e \in D \ {NaT} : e <= d

\* the filters of _compute_returns_metrics: product scope, date range of
\* the focus frame, allowed periods
KeepForFocus(coded, scope, dated, lo, hi, allowed) ==
    SelectSeq(coded, LAMBDA x :
        /\ scope # {} => x.cd \in scope
        /\ dated => (x.data_venda # NaT /\ lo <= x.data_venda /\ x.data_venda <= hi)
        /\ allowed # {} => x.periodo_venda \in allowed)

\* the return rows _compute_returns_metrics keeps
FocusReturns(focus, cat, rd) ==
    LET prepared == PrepareReturnsDataset(FilterReturnsDataset(rd, cat))
        coded == [i \in 1..Len(prepared) |->
                    [prepared[i] EXCEPT !.cd = NormalizeText(prepared[i].cd)]]
        dates == {r.data : r \in Range(focus)}
    IN  KeepForFocus(coded,
                     {r.cd : r \in Range(focus)},
                     focus # <<>>,
                     IF focus # <<>> THEN MinDate(dates) ELSE NaT,
                     IF focus # <<>> THEN MaxDate(dates) ELSE NaT,
                     {r.periodo : r \in Range(focus)} \ {NaT})

\* build_period_product_totals(prepared, period_column="periodo", ...,
\* include_order_count=True)
BuildPeriodProductTotals(kept) ==
    {LET members == SelectSeq(kept, LAMBDA x :
             <<x.periodo_venda, NormalizeText(x.cd)>> = k)
     IN  [key |-> k,
          itens_devolvidos |-> SumQtd(members),
          pedidos_devolvidos |-> Len(members)]
     : k \in {<<x.periodo_venda, NormalizeText(x.cd)>> : x \in Range(kept)}}

RECURSIVE SumOver(_, _)
\* the sum of a column over a set of rows
SumOver(S, col) ==
    IF S = {} THEN 0
    ELSE LET x == CHOOSE y \in S : TRUE IN x[col] + SumOver(S \ {x}, col)

\* monthly_totals.groupby("cd_produto").agg(sum)
OverallTotals(monthly) ==
    {LET members == {t \in monthly : t.key[2] = c}
     IN  [key |-> <<c>>,
          itens_devolvidos |-> SumOver(members, "itens_devolvidos"),
          pedidos_devolvidos |-> SumOver(members, "pedidos_devolvidos")]
     : c \in {t.key[2] : t \in monthly}}

\* prepared.groupby(["data", "cd_produto"]).agg(...)
DailyTotals(kept) ==
    {LET members == SelectSeq(kept, LAMBDA x : <<x.data_venda, x.cd>> = k)
     IN  [key |-> k,
          itens_devolvidos |-> SumQtd(members),
          pedidos_devolvidos |->
              Cardinality({x.pedido_devolucao_id : x \in Range(members)})]
     : k \in {<<x.data_venda, x.cd>> :
                x \in {y \in Range(kept) : y.data_venda # NaT}}}

\* the three totals of _compute_returns_metrics over the rows it keeps
ReturnsMetricsOf(kept, monthly) ==
    [overall |-> OverallTotals(monthly),
     monthly |-> monthly,
     daily |-> DailyTotals(kept)]

\* _compute_returns_metrics
ComputeReturnsMetrics(focus, cat, rd) ==
    ReturnsMetricsOf(FocusReturns(focus, cat, rd),
                     BuildPeriodProductTotals(FocusReturns(focus, cat, rd)))

\* the value of an aggregated row in one of the key columns of the merge
ColumnOf(r, groupCols, c) ==
    IF c = "cd" THEN r.cd
    ELSE r.key[CHOOSE i \in 1..Len(groupCols) : groupCols[i] = c]

\* _merge_return_totals(df, totals, key_cols)
MergeReturnTotals(df, groupCols, totals, keyCols) ==
    {LET hits == {t \in totals : t.key =
                     [i \in 1..Len(keyCols) |-> ColumnOf(r, groupCols, keyCols[i])]}
         devol == IF hits = {} THEN 0
                  ELSE (CHOOSE t \in hits : TRUE).itens_devolvidos
         pedidos == IF hits = {} THEN 0
                    ELSE (CHOOSE t \in hits : TRUE).pedidos_devolvidos
     IN  [key |-> r.key, cd |-> r.cd, qtd_pedidos |-> r.qtd_pedidos,
          itens_vendidos |-> r.itens_vendidos,
          itens_devolvidos |-> devol,
          pedidos_devolvidos |-> pedidos,
          taxa_devolucao |-> SafeDivide(devol, r.itens_vendidos)]
     : r \in df}

\* key_cols of the three merges
ResumoKeyCols == <<"cd">>
DiariaKeyCols == <<"data", "cd">>
MensalKeyCols == <<"periodo", "cd">>

\* the three aggregates of the focus frame, each merged with its totals
FocusMerges(focus, totals) ==
    [resumo |-> MergeReturnTotals(AggregateMetrics(focus, ResumoGroupCols),
                                  ResumoGroupCols, totals.overall, ResumoKeyCols),
     diaria |-> MergeReturnTotals(AggregateMetrics(focus, DiariaGroupCols),
                                  DiariaGroupCols, totals.daily, DiariaKeyCols),
     mensal |-> MergeReturnTotals(AggregateMetrics(focus, MensalGroupCols),
                                  MensalGroupCols, totals.monthly, MensalKeyCols)]

\* build_product_focus_analysis, up to the three merges
ProductFocus(ld, cat) ==
    FocusMerges(FocusFrame(ld, cat),
                ComputeReturnsMetrics(FocusFrame(ld, cat), cat, ld.returns_data))

\* format_percentage_columns(frame, ["margem_media", "taxa_devolucao"])
FormatFocus(f) ==
    [t \in DOMAIN f |->
        {[r EXCEPT !.taxa_devolucao = FormatRate(r.taxa_devolucao)] : r \in f[t]}]

NoFocus == [resumo |-> {}, diaria |-> {}, mensal |-> {}]

NoViews == [sale |-> {}, ret |-> {}]
NoLoaded == [df |-> <<>>, returns_data |-> <<>>]

\* the rows the sales and return sheets can hold
SalesRows(NF, CAT, AN, CD, D, Q) ==
    [nf : NF, cat : CAT, an : AN, cd : CD, data : D, qtd : Q]

ReturnRows(NF, NFD, CAT, CD, DS, DV, DD, Q) ==
    [nf : NF, nfd : NFD, cat : CAT, cd : CD, ds : DS,
     data_venda : DV, data_devolucao : DD, qtd : Q]

ViewIdle ==
    /\ sales = <<>>
    /\ returns = <<>>
    /\ category = ""
    /\ pcV = "off"
    /\ loaded = NoLoaded
    /\ retViews = NoViews
    /\ retTables = NoViews
    /\ focusMerged = NoFocus
    /\ focusTables = NoFocus

\* the workbook of the invoice scenarios: one category, sales of invoice A,
\* returns of the invoices A and B
InvoiceInit ==
    /\ sales \in Frames(SalesRows({"A"}, {"X"}, {"L1"},
                                  {<<"1">>, <<"2">>}, {1, 3}, {1}), MaxSales)
    /\ returns \in Frames(ReturnRows({"A", "B"}, {""}, {"X"},
                                     {<<"1", ".", "0">>, <<"2">>}, {"d"},
                                     {1, 3}, {3}, {1, 2}), MaxReturns)
    /\ category \in {"X"}
    /\ pcV = "raw"
    /\ loaded = NoLoaded
    /\ retViews = NoViews
    /\ retTables = NoViews
    /\ focusMerged = NoFocus
    /\ focusTables = NoFocus

\* the workbook of the category scenarios: two categories, one invoice
CategoryInit ==
    /\ sales \in Frames(SalesRows({"A"}, {"X", "Y"}, {"L1"},
                                  {<<"1">>, <<"2">>}, {1, 3}, {1}), MaxSales)
    /\ returns \in Frames(ReturnRows({"A"}, {""}, {"X", "Y"},
                                     {<<"1", ".", "0">>, <<"2">>}, {"d", "e"},
                                     {1, 3}, {3}, {1}), MaxReturns)
    /\ category \in {"", "X", "Y"}
    /\ pcV = "raw"
    /\ loaded = NoLoaded
    /\ retViews = NoViews
    /\ retTables = NoViews
    /\ focusMerged = NoFocus
    /\ focusTables = NoFocus

\* the workbook of the rate scenarios: units sold from zero up, units
\* returned of either sign
RateInit ==
    /\ sales \in Frames(SalesRows({"A", "B"}, {"X"}, {"L1"},
                                  {<<"1">>, <<"2">>}, {1}, {0, 2}), MaxSales)
    /\ returns \in Frames(ReturnRows({"A"}, {""}, {"X"},
                                     {<<"1">>, <<"2">>}, {"d"},
                                     {1}, {1, 3}, {-1, 0, 1}), MaxReturns)
    /\ category \in {"", "X"}
    /\ pcV = "raw"
    /\ loaded = NoLoaded
    /\ retViews = NoViews
    /\ retTables = NoViews
    /\ focusMerged = NoFocus
    /\ focusTables = NoFocus

\* SalesDataLoader.load from `_enrich` on
LoadDataset ==
    /\ pcV = "raw"
    /\ loaded' = Enrich(sales, returns)
    /\ pcV' = "loaded"
    /\ UNCHANGED <<sales, returns, category, retViews, retTables,
                   focusMerged, focusTables, normVars, marginVars, cacheVars,
                   restVars>>

\* build_return_analysis(df, category)
BuildReturnAnalysis ==
    /\ pcV = "loaded"
    /\ retViews' = ReturnViews(loaded, category)
    /\ retTables' = [sale |-> FormatReturnView(retViews'.sale),
                     ret |-> FormatReturnView(retViews'.ret)]
    /\ pcV' = "returns"
    /\ UNCHANGED <<sales, returns, category, loaded,
                   focusMerged, focusTables, normVars, marginVars, cacheVars,
                   restVars>>

\* build_product_focus_analysis(df, category)
BuildProductFocus ==
    /\ pcV = "returns"
    /\ focusMerged' = ProductFocus(loaded, category)
    /\ focusTables' = FormatFocus(focusMerged')
    /\ pcV' = "focus"
    /\ UNCHANGED <<sales, returns, category, loaded, retViews, retTables,
                   normVars, marginVars, cacheVars,
                   restVars>>

-----------------------------------------------------------------------------
(* Another loader of the same workbook, seen from the snapshot file: its    *)
(* _store_cache opens the file, which empties it, and later has written it. *)

NoRace == [pc |-> "off", frame |-> NoFrame]

RaceIdle == race = NoRace

\* df.to_pickle(cache_path) of the other loader opens the file for writing
OtherStoreOpen ==
    /\ pcL # "off"
    /\ race.pc = "idle"
    /\ race' = [pc |-> "writing", frame |-> ReadAndEnrich(src.ver)]
    /\ cache' = [exists |-> TRUE, mtime |-> clock, bytes |-> <<>>]
    /\ UNCHANGED <<clock, src, enableCache, pcL, work, result, how, stamp,
                   curClean, prevLoad, normVars, marginVars, viewVars,
                   loadVars, callVars>>

\* df.to_pickle(cache_path) of the other loader has written its frame
OtherStoreClose ==
    /\ pcL # "off"
    /\ race.pc = "writing"
    /\ race' = [pc |-> "idle", frame |-> NoFrame]
    /\ cache' = [exists |-> TRUE, mtime |-> clock, bytes |-> ToPickle(race.frame)]
    /\ UNCHANGED <<clock, src, enableCache, pcL, work, result, how, stamp,
                   curClean, prevLoad, normVars, marginVars, viewVars,
                   loadVars, callVars>>

\* concurrent loads start with no snapshot and the other loader not writing
RaceInit == CacheInit /\ race = [pc |-> "idle", frame |-> NoFrame]

-----------------------------------------------------------------------------
(* SalesDataLoader.load, step by step.  A workbook is its sheet names in    *)
(* workbook order, the columns its return sheets have, whether they have    *)
(* rows, and whether a fresh snapshot of it is in the cache directory.  The *)
(* sales sheets have every column.  "VENDA" is the default sheet_name;      *)
(* "DEV" stands for the return prefix "DEVOLUCAO".                          *)

SheetName == <<"V", "E", "N", "D", "A">>
ReturnPrefix == <<"D", "E", "V">>

\* the code points of the characters of a lowered text part, in order
CodeOrder == <<" ", "_", "a", "d", "e", "n", "s", "v", "x">>

IsDigit(c) == \E i \in 1..Len(DigitChars) : DigitChars[i] = c

RECURSIVE LeadRun(_, _)
\* the length of the longest prefix of digits (d) or of non-digits (~d)
LeadRun(s, d) ==
    IF s = <<>> \/ IsDigit(Head(s)) # d THEN 0 ELSE 1 + LeadRun(Tail(s), d)

RECURSIVE NumVal(_)
\* int(part) of a run of digits
NumVal(s) ==
    IF s = <<>> THEN 0
    ELSE 10 * NumVal(SubSeq(s, 1, Len(s) - 1))
         + (CHOOSE i \in 0..9 : DigitChars[i + 1] = s[Len(s)])

RECURSIVE NaturalSortKey(_)
\* _natural_sort_key: re.split(r"(\d+)", value), digit runs as int, the
\* other parts lowered
NaturalSortKey(s) ==
    LET t == LeadRun(s, FALSE)
        r == SubSeq(s, t + 1, Len(s))
        d == LeadRun(r, TRUE)
    IN  IF r = <<>> THEN <<LowerText(s)>>
        ELSE <<LowerText(SubSeq(s, 1, t)), NumVal(SubSeq(r, 1, d))>>
             \o NaturalSortKey(SubSeq(r, d + 1, Len(r)))

RECURSIVE TextLess(_, _)
\* a < b of two str
TextLess(a, b) ==
    IF a = <<>> THEN b # <<>>
    ELSE IF b = <<>> THEN FALSE
    ELSE IF Head(a) = Head(b) THEN TextLess(Tail(a), Tail(b))
    ELSE (CHOOSE i \in 1..Len(CodeOrder) : CodeOrder[i] = Head(a))
         < (CHOOSE i \in 1..Len(CodeOrder) : CodeOrder[i] = Head(b))

RECURSIVE KeyLess(_, _)
\* a < b of two keys: lists compare item by item.  A key is str, int,
\* str, ..., str, so what is left of it starts with an int exactly when
\* its length is even
KeyLess(a, b) ==
    IF a = <<>> THEN b # <<>>
    ELSE IF b = <<>> THEN FALSE
    ELSE IF Head(a) = Head(b) THEN KeyLess(Tail(a), Tail(b))
    ELSE IF Len(a) % 2 = 0 THEN Head(a) < Head(b)
    ELSE TextLess(Head(a), Head(b))

RECURSIVE SortedNatural(_)
\* sorted(matches, key=_natural_sort_key): a stable sort
SortedNatural(names) ==
    IF names = <<>> THEN <<>>
    ELSE LET front == SortedNatural(SubSeq(names, 1, Len(names) - 1))
             x == names[Len(names)]
         IN  SelectSeq(front, LAMBDA e :
                 ~KeyLess(NaturalSortKey(x), NaturalSortKey(e)))
             \o <<x>>
             \o SelectSeq(front, LAMBDA e :
                 KeyLess(NaturalSortKey(x), NaturalSortKey(e)))

\* name.startswith(prefix)
StartsWith(name, prefix) ==
    Len(name) >= Len(prefix) /\ SubSeq(name, 1, Len(prefix)) = prefix

\* _resolve_sheet_names(prefix): the sheets read, in reading order
ResolveSheetNames(available, prefix) ==
    SortedNatural(SelectSeq(available, LAMBDA n : StartsWith(n, prefix)))

\* the canonical names of RETURN_COLUMN_MAP that _enrich touches
ReturnColumns ==
    {"data_venda", "data_devolucao", "nr_nota_fiscal", "nr_nota_devolucao",
     "categoria", "cd_anuncio", "ds_anuncio", "cd_produto", "cd_fabricante",
     "ds_produto", "tp_anuncio", "qtd_sku", "devolucao_receita_bruta",
     "tp_registro"}

\* the return columns _enrich reads with no default that survives: the
\* .dt and .fillna calls, the groupby keys and the final column selection
EnrichReads == ReturnColumns \ {"tp_registro", "cd_anuncio", "ds_anuncio"}

\* _enrich raises on a non-empty returns frame that lacks a column it reads
EnrichRaises(w, returnSheets) ==
    returnSheets # <<>> /\ w.returnRows > 0 /\ ~(EnrichReads \subseteq w.returnCols)

\* the frame load() builds: the sales sheets read, in order, and the
\* returns_data built from the return sheets (empty without return rows)
Enriched(w, salesSheets, returnSheets) ==
    [sales |-> salesSheets,
     returns |-> IF w.returnRows > 0 THEN returnSheets ELSE <<>>]

NoWorkbook ==
    [exists |-> FALSE, sheets |-> <<>>, returnCols |-> {}, returnRows |-> 0,
     extraCols |-> {}, snapshot |-> FALSE]

\* the columns of the frame _enrich returns: the canonical names of
\* SALES_COLUMN_MAP, the columns _enrich derives, and the sheet's other
\* columns, which _normalize_columns keeps under their lowered names
LoaderColumns(w) ==
    {"data", "nr_nota_fiscal", "categoria", "cd_anuncio", "ds_anuncio",
     "cd_produto", "cd_fabricante", "ds_produto", "tp_anuncio",
     "custo_produto", "preco_unitario", "qtd_sku", "perc_margem_bruta",
     "rbld", "tp_registro",
     "qtd_devolvido", "devolucao_receita_bruta", "receita_bruta_calc",
     "lucro_bruto_estimado", "taxa_devolucao"}
    \cup w.extraCols

\* the columns build_potential_sku_analysis selects from the frame in its
\* two groupby calls
PotentialReads ==
    {"cd_anuncio", "ds_anuncio", "cd_produto", "qtd_sku", "nr_nota_fiscal",
     "rbld", "custo_total", "perc_margem_bruta", "preco_vendido"}

NoLoader ==
    [pc |-> "start", sales |-> <<>>, rets |-> <<>>, total |-> 0,
     completed |-> 0, log |-> <<>>, out |-> "none", stored |-> "none",
     err |-> "none"]

\* the names a sheet of the modelled workbooks can have
SheetNames ==
    {SheetName, SheetName \o <<"2">>, SheetName \o <<"1", "0">>,
     SheetName \o <<"_", "X">>, ReturnPrefix, ReturnPrefix \o <<"1">>,
     <<"X">>}

RECURSIVE SheetLists(_)
\* the lists of at most n distinct sheet names
SheetLists(n) ==
    IF n = 0 THEN {<<>>}
    ELSE LET shorter == SheetLists(n - 1)
         IN  shorter \cup {Append(l, x) : l \in shorter, x \in SheetNames}

\* a list with no sheet name twice
Distinct(l) == \A i, j \in 1..Len(l) : l[i] = l[j] => i = j

\* a snapshot exists only of a workbook an earlier load() could finish on
Workbooks ==
    {NoWorkbook} \cup
    {w \in [exists : {TRUE},
            sheets : {l \in SheetLists(MaxSheets) : Distinct(l)},
            returnCols : {ReturnColumns,
                          ReturnColumns \ {"nr_nota_devolucao"},
                          ReturnColumns \ {"cd_anuncio", "ds_anuncio"}},
            returnRows : 0..1,
            extraCols : {{}, {"preco_vendido", "custo_total"}},
            snapshot : BOOLEAN] :
        w.snapshot =>
            /\ ResolveSheetNames(w.sheets, SheetName) # <<>>
            /\ ~EnrichRaises(w, ResolveSheetNames(w.sheets, ReturnPrefix))}

LoadInit ==
    /\ wb \in Workbooks
    /\ cb \in {"none", "ok", "raises"}
    /\ ldr = NoLoader

\* the callback raises on every call it gets
NotifyProgressNoTry(l, processed, total, raised) ==
    IF cb = "none" THEN l
    ELSE IF raised
    THEN [l EXCEPT !.log = Append(@, <<processed, total>>),
                   !.pc = "raised", !.err = "callback"]
    ELSE [l EXCEPT !.log = Append(@, <<processed, total>>)]

\* _notify_progress: no callback, no call; whatever the callback raises
\* is swallowed
NotifyProgress(l, processed, total, raised) ==
    IF cb = "none" THEN l
    ELSE [l EXCEPT !.log = Append(@, <<processed, total>>)]

\* whether this call of the callback raises
Raises == IF cb = "raises" THEN BOOLEAN ELSE {FALSE}

\* load() goes on at the next step unless an exception left it
Goto(l, pc) == IF l.pc = "raised" THEN l ELSE [l EXCEPT !.pc = pc]

\* a total that leaves the enrichment step out
TotalStepsNoEnrich(salesSheets, returnSheets) ==
    LET n == Len(salesSheets) + Len(returnSheets)
    IN  IF n > 1 THEN n ELSE 1

\* total_steps = max(1, len(sales_sheets) + len(return_sheets) + 1)
TotalSteps(salesSheets, returnSheets) ==
    LET n == Len(salesSheets) + Len(returnSheets) + 1
    IN  IF n > 1 THEN n ELSE 1

\* load: the workbook check and the two sheet resolutions
ResolveSheets ==
    /\ ldr.pc = "start"
    /\ LET salesSheets == ResolveSheetNames(wb.sheets, SheetName)
           returnSheets == ResolveSheetNames(wb.sheets, ReturnPrefix)
       IN  ldr' = IF ~wb.exists
                  THEN [ldr EXCEPT !.pc = "raised",
                                   !.err = "FileNotFoundError"]
                  ELSE IF salesSheets = <<>>
                  THEN [ldr EXCEPT !.pc = "raised", !.err = "ValueError"]
                  ELSE [ldr EXCEPT !.sales = salesSheets,
                                   !.rets = returnSheets,
                                   !.total = TotalSteps(salesSheets,
                                                        returnSheets),
                                   !.pc = IF wb.snapshot THEN "hit"
                                          ELSE "begin"]
    /\ UNCHANGED <<wb, cb, normVars, marginVars, cacheVars, viewVars,
                   raceVars, callVars>>

\* load: the snapshot is fresh; report the last step and return it
CacheHit ==
    /\ ldr.pc = "hit"
    /\ \E raised \in Raises :
        ldr' = Goto([NotifyProgress(ldr, ldr.total, ldr.total, raised)
                        EXCEPT !.out = Enriched(wb, ldr.sales, ldr.rets)],
                    "done")
    /\ UNCHANGED <<wb, cb, normVars, marginVars, cacheVars, viewVars,
                   raceVars, callVars>>

\* load: _notify_progress(0, total_steps)
ReportStart ==
    /\ ldr.pc = "begin"
    /\ \E raised \in Raises :
        ldr' = Goto(NotifyProgress(ldr, 0, ldr.total, raised), "read")
    /\ UNCHANGED <<wb, cb, normVars, marginVars, cacheVars, viewVars,
                   raceVars, callVars>>

\* _read_group: one sheet read, then _advance
ReadSheet ==
    /\ ldr.pc = "read"
    /\ \E raised \in Raises :
        LET done == ldr.completed + 1
        IN  ldr' = Goto(NotifyProgress([ldr EXCEPT !.completed = done],
                                       done, ldr.total, raised),
                        IF done = Len(ldr.sales) + Len(ldr.rets)
                        THEN "enrich" ELSE "read")
    /\ UNCHANGED <<wb, cb, normVars, marginVars, cacheVars, viewVars,
                   raceVars, callVars>>

\* load: _coerce_numeric and _enrich, then _advance
EnrichFrame ==
    /\ ldr.pc = "enrich"
    /\ \E raised \in Raises :
        LET done == ldr.completed + 1
        IN  ldr' = IF EnrichRaises(wb, ldr.rets)
                   THEN [ldr EXCEPT !.pc = "raised", !.err = "KeyError"]
                   ELSE Goto(NotifyProgress(
                                 [ldr EXCEPT
                                     !.out = Enriched(wb, ldr.sales, ldr.rets),
                                     !.completed = done],
                                 done, ldr.total, raised),
                             "store")
    /\ UNCHANGED <<wb, cb, normVars, marginVars, cacheVars, viewVars,
                   raceVars, callVars>>

\* load: _store_cache, return enriched
StoreSnapshot ==
    /\ ldr.pc = "store"
    /\ ldr' = [ldr EXCEPT !.stored = ldr.out, !.pc = "done"]
    /\ UNCHANGED <<wb, cb, normVars, marginVars, cacheVars, viewVars,
                   raceVars, callVars>>

\* build_potential_sku_analysis(load(), None): the groupby of a column the
\* frame has not raises KeyError
BuildPotentialSku ==
    /\ ldr.pc = "done"
    /\ ldr' = IF PotentialReads \subseteq LoaderColumns(wb)
              THEN [ldr EXCEPT !.pc = "built"]
              ELSE [ldr EXCEPT !.pc = "builder raised", !.err = "KeyError"]
    /\ UNCHANGED <<wb, cb, normVars, marginVars, cacheVars, viewVars,
                   raceVars, callVars>>

-----------------------------------------------------------------------------
(* _prepare_returns_dataset on the text of the two invoice cells of a      *)
(* return row.  The loader reads both columns as str: a cell is a str, or  *)
(* NaN where the sheet has none (NullValue), or None.                      *)

NoneValue == [kind |-> "none", num |-> 0, txt |-> <<>>]

\* Series.astype(str) of an invoice cell
AsTypeStr(v) ==
    IF v.kind = "null" THEN <<"n", "a", "n">>
    ELSE IF v.kind = "none" THEN <<"N", "o", "n", "e">>
    ELSE v.txt

\* devolucao_id.replace({"nan": "", "None": ""})
ReplaceNullTexts(s) ==
    IF s \in {<<"n", "a", "n">>, <<"N", "o", "n", "e">>} THEN <<>> ELSE s

\* the id with no replacement of the texts of a null
PedidoDevolucaoIdKeepNull(nota_devolucao, nota_venda) ==
    LET devolucao_id == StripText(AsTypeStr(nota_devolucao))
        fallback == StripText(StripText(AsTypeStr(nota_venda)))
    IN  StripText(IF devolucao_id # <<>> THEN devolucao_id ELSE fallback)

\* working["pedido_devolucao_id"]; nr_nota_fiscal was stripped once before
PedidoDevolucaoIdText(nota_devolucao, nota_venda) ==
    LET devolucao_id == ReplaceNullTexts(StripText(AsTypeStr(nota_devolucao)))
        fallback == StripText(StripText(AsTypeStr(nota_venda)))
    IN  StripText(IF devolucao_id # <<>> THEN devolucao_id ELSE fallback)

InvoiceCells ==
    {NullValue, NoneValue}
    \cup {StrValue(t) : t \in UNION {TextsOfLen(n) : n \in 0..MaxIdLen}}
    \cup {StrValue(<<"N", "o", "n", "e">>), StrValue(<<" ", "N", "o", "n", "e">>)}

IdInit ==
    /\ arg \in InvoiceCells
              \X {NullValue, StrValue(<<"1">>), StrValue(<<" ", "1", " ">>)}
    /\ ret = <<>>
    /\ pcF = "call"

\* _prepare_returns_dataset on one return row
PrepareReturnRow ==
    /\ pcF = "call"
    /\ ret' = PedidoDevolucaoIdText(arg[1], arg[2])
    /\ pcF' = "done"
    /\ UNCHANGED <<arg, normVars, marginVars, cacheVars, viewVars, raceVars,
                   loadVars>>

-----------------------------------------------------------------------------
(* reporting/low_cost.py.  A row of the frame is [an, cat, custo, qtd]; a   *)
(* listing sells one product, so cd_anuncio stands for cd_produto too.      *)
(* returns_totals, what _compute_returns_totals gives, is a set of          *)
(* [cd, itens] rows.  A mean is a fraction [n, d] with d > 0.               *)

COST_PERCENTILE == [n |-> 1, d |-> 4]

\* the columns of `aggregated` right after the groupby
LowCostAggregatedColumns ==
    <<"cd_anuncio", "ds_anuncio", "itens_vendidos_total", "pedidos_total",
      "receita_total", "custo_medio_unitario", "custo_produto",
      "itens_devolvidos_total", "receita_itens_devolvidos_total",
      "margem_media", "categoria", "cd_produto">>

\* final_order: the columns of the table of a frame with rows
LowCostFinalOrder ==
    <<"categoria", "cd_anuncio", "cd_produto", "ds_anuncio",
      "itens_vendidos_total", "pedidos_total", "receita_total",
      "custo_medio_unitario", "custo_produto", "margem_media",
      "itens_devolvidos_total", "pedidos_devolvidos_total",
      "receita_devolucao_total", "taxa_devolucao", "ticket_medio_estimado",
      "preco_min_unitario_intervalo", "preco_min_unitario_historico_total",
      "potencial_reputacao_score">>

RECURSIVE SumCol(_, _)
\* Series.sum() of a column
SumCol(f, col) == IF f = <<>> THEN 0 ELSE Head(f)[col] + SumCol(Tail(f), col)

\* x <= y of two fractions
FracLeq(x, y) == x.n * y.d <= y.n * x.d

\* the groupby of cd_anuncio and the merge with returns_totals
LowCostAggregate(data, returns_totals) ==
    {LET members == SelectSeq(data, LAMBDA r : r.an = a)
         hits == {t \in returns_totals : t.cd = a}
     IN  [cd_anuncio |-> a,
          itens_vendidos_total |-> SumQtd(members),
          custo_medio_unitario |->
              [n |-> SumCol(members, "custo"), d |-> Len(members)],
          itens_devolvidos_total |->
              IF hits = {} THEN 0 ELSE (CHOOSE t \in hits : TRUE).itens]
     : a \in {r.an : r \in Range(data)}}

RECURSIVE SortedCosts(_)
\* the mean costs of the items, in ascending order
SortedCosts(items) ==
    IF items = {} THEN <<>>
    ELSE LET x == CHOOSE y \in items : \A z \in items :
                      FracLeq(y.custo_medio_unitario, z.custo_medio_unitario)
         IN  <<x.custo_medio_unitario>> \o SortedCosts(items \ {x})

\* Series.quantile(q), linear interpolation: position (n - 1) * q of the
\* sorted values
Quantile(v, q) ==
    LET pos == (Len(v) - 1) * q.n
        lo == v[(pos \div q.d) + 1]
        hi == IF pos % q.d = 0 THEN lo ELSE v[(pos \div q.d) + 2]
        r == pos % q.d
    IN  [n |-> (q.d - r) * lo.n * hi.d + r * hi.n * lo.d,
         d |-> q.d * lo.d * hi.d]

\* the selection with no cost condition
LowCostSelectedAnyCost(items, a) ==
    {i \in items :
        /\ i.itens_vendidos_total >= a.min_quantity
        /\ FracLeq(SafeDivide(i.itens_devolvidos_total,
                              i.itens_vendidos_total),
                   a.max_return_rate)}

\* selecionados
LowCostSelected(items, a) ==
    {i \in items :
        /\ FracLeq(i.custo_medio_unitario,
                   Quantile(SortedCosts(items), a.cost_percentile))
        /\ i.itens_vendidos_total >= a.min_quantity
        /\ FracLeq(SafeDivide(i.itens_devolvidos_total,
                              i.itens_vendidos_total),
                   a.max_return_rate)}

\* build_low_cost_reputation_analysis: the table "produtos_indicados"
BuildLowCostReputation(a) ==
    LET items == LowCostAggregate(FilterByCategory(a.df, a.category),
                                  a.returns_totals)
    IN  IF items = {}
        THEN [columns |-> LowCostAggregatedColumns, rows |-> {}]
        ELSE [columns |-> LowCostFinalOrder,
              rows |-> LowCostSelected(items, a)]

LowCostInit ==
    /\ arg \in [df : Frames([an : {"L1", "L2", "L3"}, cat : {"X"},
                             custo : {1, 4}, qtd : {1, 3}], MaxRows),
                category : {"X", "Y"},
                returns_totals : {{}, {[cd |-> "L1", itens |-> 1]}},
                cost_percentile : {COST_PERCENTILE},
                min_quantity : {2},
                max_return_rate : {Ratio(1, 4)}]
    /\ ret = <<>>
    /\ pcF = "call"

BuildLowCost ==
    /\ pcF = "call"
    /\ ret' = BuildLowCostReputation(arg)
    /\ pcF' = "done"
    /\ UNCHANGED <<arg, normVars, marginVars, cacheVars, viewVars, raceVars,
                   loadVars>>

-----------------------------------------------------------------------------
(* reporting/top_history.py.  A row is [an, cat, data, qtd].                *)

MIN_MONTHS_RECURRENCE == 3

\* period_series.astype(str): a text for every row, "NaT" for a row with
\* no date
PeriodText(p) == IF p = NaT THEN <<"N", "a", "T">> ELSE NatText(p)

\* summary: the groupby of cd_anuncio, the floor of months, and the head
\* of a rank_size that no frame here exceeds
BuildTopHistory(a) ==
    LET data == FilterByCategory(a.df, a.category)
        summary ==
            {LET members == SelectSeq(data, LAMBDA r : r.an = an)
             IN  [cd_anuncio |-> an,
                  meses_com_venda |->
                      Cardinality({PeriodText(PeriodOf(r.data)) :
                                      r \in Range(members)}),
                  quantidade_total |-> SumQtd(members)]
             : an \in {r.an : r \in Range(data)}}
    IN  {i \in summary : i.meses_com_venda >= MIN_MONTHS_RECURRENCE}

TopHistoryInit ==
    /\ arg \in [df : Frames([an : {"L1", "L2"}, cat : {"X"},
                             data : {NaT, 1, 1 + DaysPerMonth,
                                     1 + 2 * DaysPerMonth},
                             qtd : {1, 2}], MaxRows),
                category : {"", "X"}]
    /\ ret = <<>>
    /\ pcF = "call"

BuildTopRanking ==
    /\ pcF = "call"
    /\ ret' = BuildTopHistory(arg)
    /\ pcF' = "done"
    /\ UNCHANGED <<arg, normVars, marginVars, cacheVars, viewVars, raceVars,
                   loadVars>>

-----------------------------------------------------------------------------
(* build_product_focus_analysis with product_codes.  Listing codes are     *)
(* texts here, as the product codes are.                                   *)

\* the focus frame: the rows whose cd_anuncio is one of the stripped,
\* non-empty codes, or every row when no code is left
FocusFrameByCodes(ld, cat, product_codes) ==
    LET normalized_codes == {StripText(c) : c \in product_codes} \ {<<>>}
    IN  IF normalized_codes = {} THEN FocusFrame(ld, cat)
        ELSE FocusFrame(
                 [ld EXCEPT !.df = SelectSeq(ld.df, LAMBDA r :
                                       r.an \in normalized_codes)],
                 cat)

FocusCodesInit ==
    /\ arg \in [df : Frames(SalesRows({"A"}, {"X"}, {<<"1">>, <<"7">>},
                                      {<<"1">>, <<"2">>}, {NaT, 1}, {1}),
                            MaxSales),
                category : {"X"},
                product_codes : SUBSET {<<"1">>, <<" ", "2">>}]
    /\ ret = <<>>
    /\ pcF = "call"

\* build_product_focus_analysis(df, category, product_codes): the focus
\* frame and the summary view aggregated from it
BuildFocusByCodes ==
    /\ pcF = "call"
    /\ LET focus == FocusFrameByCodes(Enrich(arg.df, <<>>), arg.category,
                                      arg.product_codes)
       IN  ret' = [focus |-> focus,
                   resumo |-> AggregateMetrics(focus, ResumoGroupCols)]
    /\ pcF' = "done"
    /\ UNCHANGED <<arg, normVars, marginVars, cacheVars, viewVars, raceVars,
                   loadVars>>

-----------------------------------------------------------------------------
(* build_period_product_totals with allowed_periods.  The argument is a    *)
(* record [given, periods]: None is given = FALSE, and a set of period     *)
(* texts otherwise.                                                        *)

\* `if allowed_periods:` keeps the rows whose period text is an allowed
\* one that is not "nat"; None and the empty set filter nothing.  The
\* output has the period as text, as astype(str) leaves it.
BuildPeriodProductTotalsIn(df, allowed_periods) ==
    LET allowed_str == {p \in allowed_periods.periods :
                          p # <<>> /\ LowerText(p) # <<"n", "a", "t">>}
        working == IF allowed_periods.given /\ allowed_periods.periods # {}
                   THEN SelectSeq(df, LAMBDA x :
                            PeriodText(x.periodo_venda) \in allowed_str)
                   ELSE df
    IN  {[periodo |-> PeriodText(t.key[1]),
          cd |-> t.key[2],
          itens_devolvidos |-> t.itens_devolvidos,
          pedidos_devolvidos |-> t.pedidos_devolvidos]
         : t \in BuildPeriodProductTotals(working)}

TotalsInit ==
    /\ arg \in [df : Frames([cd : {<<"1">>}, periodo_venda : {NaT, 1, 2},
                             qtd : {1, 2}], MaxReturns),
                allowed_periods :
                    {[given |-> FALSE, periods |-> {}]} \cup
                    [given : {TRUE},
                     periods : SUBSET {PeriodText(1), PeriodText(NaT)}]]
    /\ ret = {}
    /\ pcF = "call"

\* build_period_product_totals(df, allowed_periods=...)
BuildTotals ==
    /\ pcF = "call"
    /\ ret' = BuildPeriodProductTotalsIn(arg.df, arg.allowed_periods)
    /\ pcF' = "done"
    /\ UNCHANGED <<arg, normVars, marginVars, cacheVars, viewVars, raceVars,
                   loadVars>>

-----------------------------------------------------------------------------
(* reporting/potential.py.  A sales row is [an, cd, cat, data, qtd]; the   *)
(* return rows are the prepared ones, [cd, periodo_venda, qtd].  Means and *)
(* ratios are fractions [n, d] with d > 0.  Of the columns of the tables   *)
(* the model keeps the volumes, the return rates and the months.           *)

RECENT_WINDOW == 3
MIN_HIST_MONTHS == 3
MIN_DROP_RATIO == [n |-> 3, d |-> 10]

RECURSIVE Gcd(_, _)
Gcd(a, b) == IF b = 0 THEN a ELSE Gcd(b, a % b)

\* the fraction a/b in lowest terms
Frac(a, b) ==
    LET g == Gcd(IF a < 0 THEN -a ELSE a, b)
    IN  [n |-> a \div g, d |-> b \div g]
FracAdd(x, y) == Frac(x.n * y.d + y.n * x.d, x.d * y.d)
FracSub(x, y) == Frac(x.n * y.d - y.n * x.d, x.d * y.d)
FracMul(x, y) == Frac(x.n * y.n, x.d * y.d)
FracEq(x, y) == x.n * y.d = y.n * x.d

\* ord() of the characters of a period text
CharCode(c) ==
    IF IsDigit(c)
    THEN 47 + (CHOOSE i \in 1..Len(DigitChars) : DigitChars[i] = c)
    ELSE IF c = "N" THEN 78 ELSE IF c = "T" THEN 84 ELSE 97

RECURSIVE StrLess(_, _)
\* a < b on str
StrLess(a, b) ==
    IF a = <<>> THEN b # <<>>
    ELSE IF b = <<>> THEN FALSE
    ELSE IF Head(a) = Head(b) THEN StrLess(Tail(a), Tail(b))
    ELSE CharCode(Head(a)) < CharCode(Head(b))

RECURSIVE SortedTexts(_)
\* sorted(S) of a set of texts
SortedTexts(S) ==
    IF S = {} THEN <<>>
    ELSE LET x == CHOOSE y \in S : \A z \in S \ {y} : StrLess(y, z)
         IN  <<x>> \o SortedTexts(S \ {x})

\* _build_returns_totals_by_sale_period
ReturnsTotalsBySalePeriod(returns_df, allowed_periods) ==
    IF returns_df = <<>> \/ allowed_periods = {} THEN {}
    ELSE BuildPeriodProductTotalsIn(
             SelectSeq(returns_df, LAMBDA x :
                 PeriodText(x.periodo_venda) \in allowed_periods),
             [given |-> TRUE, periods |-> allowed_periods])

\* grouped: the groupby of period, product and listing, with the returned
\* units of the left merge on (period, product), 0 where there is none
PotentialGrouped(a) ==
    LET data == FilterByCategory(a.df, a.category)
        allowed_periods == {PeriodText(PeriodOf(r.data)) : r \in Range(data)}
                               \ {PeriodText(NaT)}
        return_totals == ReturnsTotalsBySalePeriod(a.returns_data,
                                                   allowed_periods)
        keys == {<<PeriodText(PeriodOf(r.data)), NormalizeText(r.cd), r.an>> :
                   r \in Range(data)}
    IN  {LET members == SelectSeq(data, LAMBDA r :
                 <<PeriodText(PeriodOf(r.data)), NormalizeText(r.cd), r.an>>
                     = k)
             hits == {t \in return_totals :
                        t.periodo = k[1] /\ t.cd = k[2]}
         IN  [periodo |-> k[1], cd |-> k[2], an |-> k[3],
              qtd_vendida |-> SumQtd(members),
              qtd_devolvida |-> SumOver(hits, "itens_devolvidos")]
         : k \in keys}

\* grouped.sort_values("periodo"); grouped["periodo"].unique()
AvailablePeriods(grouped) == SortedTexts({g.periodo : g \in grouped})

\* the two windows: recent_periods when given, else the last recent_window
\* of the available periods; `none` is the early return of empty tables
PotentialWindows(available_periods, recent_periods, recent_window) ==
    IF recent_periods # <<>>
    THEN LET selected == SortedTexts(Range(recent_periods))
             valid_selected == SelectSeq(selected, LAMBDA q :
                                   q \in Range(available_periods))
             historical_periods ==
                 SelectSeq(available_periods, LAMBDA q :
                     q \notin Range(valid_selected))
         IN  [recent |-> valid_selected,
              historical |-> historical_periods,
              none |-> valid_selected = <<>> \/ historical_periods = <<>>]
    ELSE LET n == Len(available_periods)
             half == IF n \div 2 = 0 THEN 1 ELSE n \div 2
             w == IF n <= recent_window
                  THEN (IF half > 1 THEN half ELSE 1)
                  ELSE recent_window
         IN  [recent |-> SubSeq(available_periods, n - w + 1, n),
              historical |-> SubSeq(available_periods, 1, n - w),
              none |-> FALSE]

RECURSIVE SumRates(_)
\* the sum of taxa_devolucao_mensal over rows of grouped
SumRates(G) ==
    IF G = {} THEN Frac(0, 1)
    ELSE LET g == CHOOSE y \in G : TRUE
         IN  FracAdd(IF g.qtd_vendida > 0
                     THEN Frac(g.qtd_devolvida, g.qtd_vendida)
                     ELSE Frac(0, 1),
                     SumRates(G \ {g}))

\* _aggregate_window
AggregateWindow(grouped, periods) ==
    IF periods = <<>> THEN {}
    ELSE LET filtered == {g \in grouped : g.periodo \in Range(periods)}
         IN  {LET members == {g \in filtered : g.an = an}
              IN  [an |-> an,
                   qtd_vendida_media |->
                       Frac(SumOver(members, "qtd_vendida"),
                            Cardinality(members)),
                   taxa_devolucao_media |->
                       FracMul(SumRates(members),
                               Frac(1, Cardinality(members))),
                   meses_validos |->
                       Cardinality({g.periodo : g \in members})]
              : an \in {g.an : g \in filtered}}

\* queda_pct_qtd
QuedaPct(h, r) ==
    IF h.n > 0 THEN Frac(FracSub(h, r).n * h.d, FracSub(h, r).d * h.n)
    ELSE Frac(0, 1)

\* stats: historical.merge(recent, how="left").fillna(0) and the three
\* derived columns
PotentialStats(historical, recent) ==
    {LET hits == {r \in recent : r.an = h.an}
         rec == IF hits = {} THEN Frac(0, 1)
                ELSE (CHOOSE r \in hits : TRUE).qtd_vendida_media
         taxa == IF hits = {} THEN Frac(0, 1)
                 ELSE (CHOOSE r \in hits : TRUE).taxa_devolucao_media
         queda_abs == FracSub(h.qtd_vendida_media, rec)
     IN  [an |-> h.an,
          qtd_vendida_media_historico |-> h.qtd_vendida_media,
          qtd_vendida_media_recente |-> rec,
          historico_meses_validos |-> h.meses_validos,
          taxa_devolucao_media_historico |-> h.taxa_devolucao_media,
          taxa_devolucao_media_recente |-> taxa,
          queda_abs_qtd |-> queda_abs,
          queda_pct_qtd |-> QuedaPct(h.qtd_vendida_media, rec),
          potencial_score |->
              FracMul(FracMul(IF queda_abs.n > 0 THEN queda_abs
                              ELSE Frac(0, 1),
                              Frac(h.meses_validos, 1)),
                      FracSub(Frac(1, 1), h.taxa_devolucao_media))]
     : h \in historical}

RECURSIVE SortedHistorico(_)
\* the historical means of a set of stats rows, ascending
SortedHistorico(items) ==
    IF items = {} THEN <<>>
    ELSE LET x == CHOOSE y \in items : \A z \in items :
                      FracLeq(y.qtd_vendida_media_historico,
                              z.qtd_vendida_media_historico)
         IN  <<x.qtd_vendida_media_historico>> \o SortedHistorico(items \ {x})

\* median_reference: the median over the rows with enough historical
\* months, over all rows when there is none, 0 when it is NaN
MedianReference(stats) ==
    LET eligible == {t \in stats :
                       t.historico_meses_validos >= MIN_HIST_MONTHS}
    IN  IF eligible # {} THEN Quantile(SortedHistorico(eligible), Frac(1, 2))
        ELSE IF stats # {} THEN Quantile(SortedHistorico(stats), Frac(1, 2))
        ELSE Frac(0, 1)

\* the mask of candidatos
IsCandidate(t, median_reference) ==
    /\ t.historico_meses_validos >= MIN_HIST_MONTHS
    /\ FracLeq(median_reference, t.qtd_vendida_media_historico)
    /\ FracLeq(MIN_DROP_RATIO, t.queda_pct_qtd)
    /\ FracLeq(t.taxa_devolucao_media_recente, Frac(1, 5))

\* the order of sort_values([potencial_score, queda_pct_qtd,
\* qtd_vendida_media_historico], ascending=False): x before z
RankedBefore(x, z) ==
    IF ~FracEq(x.potencial_score, z.potencial_score)
    THEN ~FracLeq(x.potencial_score, z.potencial_score)
    ELSE IF ~FracEq(x.queda_pct_qtd, z.queda_pct_qtd)
    THEN ~FracLeq(x.queda_pct_qtd, z.queda_pct_qtd)
    ELSE IF ~FracEq(x.qtd_vendida_media_historico,
                    z.qtd_vendida_media_historico)
    THEN ~FracLeq(x.qtd_vendida_media_historico,
                  z.qtd_vendida_media_historico)
    ELSE StrLess(x.an, z.an)

RECURSIVE Ranked(_)
Ranked(items) ==
    IF items = {} THEN <<>>
    ELSE LET x == CHOOSE y \in items : \A z \in items \ {y} :
                      RankedBefore(y, z)
         IN  <<x>> \o Ranked(items \ {x})

\* build_potential_sku_analysis: the table 'potenciais' (rank_size is
\* above the number of listings of every frame here) and the two windows
BuildPotentialSkuAnalysis(a) ==
    LET grouped == PotentialGrouped(a)
        windows == PotentialWindows(AvailablePeriods(grouped),
                                    a.recent_periods, a.recent_window)
        stats == PotentialStats(AggregateWindow(grouped, windows.historical),
                                AggregateWindow(grouped, windows.recent))
    IN  IF grouped = {}
        THEN [potenciais |-> <<>>, recent_periods |-> <<>>,
              historical_periods |-> <<>>]
        ELSE [potenciais |->
                  IF windows.none THEN <<>>
                  ELSE Ranked({t \in stats :
                                 IsCandidate(t, MedianReference(stats))}),
              recent_periods |-> windows.recent,
              historical_periods |-> windows.historical]

\* the first day of month m
MonthDay(m) == (m - 1) * DaysPerMonth + 1

\* one sales row a month for a listing, of the volume of the month
VolumeRows(code, volumes) ==
    SelectSeq([i \in 1..Len(volumes) |->
                  [an |-> code, cd |-> code, cat |-> "X",
                   data |-> MonthDay(i), qtd |-> volumes[i]]],
              LAMBDA r : r.qtd > 0)

ClaimedVolumes == <<120, 100, 110, 115, 105, 55, 45, 35>>

PotentialInit ==
    /\ arg \in
         [df : {VolumeRows(<<"1">>, ClaimedVolumes)
                \o VolumeRows(<<"2">>, [i \in 1..Len(ClaimedVolumes) |->
                                          IF i <= 5 THEN h ELSE r])
                \o extra :
                  h \in {0, 100, 200}, r \in {0, 90, 50},
                  extra \in {<<>>} \cup
                            {<<[an |-> c, cd |-> c, cat |-> "X",
                                data |-> NaT, qtd |-> 10]>> :
                               c \in {<<"1">>, <<"2">>}}},
          category : {""},
          returns_data : {<<>>,
                          <<[cd |-> <<"2">>, periodo_venda |-> 8,
                             qtd |-> 30]>>,
                          <<[cd |-> <<"1">>, periodo_venda |-> 2,
                             qtd |-> 12]>>},
          recent_periods : {<<>>,
                            <<PeriodText(8)>>,
                            <<PeriodText(8), PeriodText(7), PeriodText(6)>>},
          recent_window : {RECENT_WINDOW}]
    /\ ret = <<>>
    /\ pcF = "call"

BuildPotential ==
    /\ pcF = "call"
    /\ ret' = BuildPotentialSkuAnalysis(arg)
    /\ pcF' = "done"
    /\ UNCHANGED <<arg, normVars, marginVars, cacheVars, viewVars, raceVars,
                   loadVars>>

-----------------------------------------------------------------------------
(* The loaded dataset as a shared object.  `loaded` is the frame           *)
(* DatasetManager keeps and hands to every caller; `arg` is the frame the  *)
(* last load_filtered returned and `ret` the working frame of the last     *)
(* builder, each with the side-table in its attrs.  A frame that is the    *)
(* same object as the one it was made from is marked shared: a write to it *)
(* is a write to that one.  The tables of the builders are left out here.  *)

NoShared == [by |-> "none", df |-> <<>>, returns_data |-> <<>>]

Builders == {"return", "potential", "top_history", "low_cost",
             "product_focus"}

\* the builders that assign columns of the frame _filter_by_category gave
\* them; the other two work on one more copy
WritingBuilders == {"potential", "top_history", "low_cost"}

\* a filter that hands the frame itself back when there is nothing to
\* filter out
FilterByCategoryShared(f, cat) ==
    [df |-> FilterByCategory(f.df, cat),
     returns_data |-> f.returns_data,
     shared |-> cat = ""]

\* _filter_by_category as an object: df.copy() or df[mask].copy(), then
\* attrs = dict(df.attrs), a new frame with the same side-table
FilterByCategoryObject(f, cat) ==
    [df |-> FilterByCategory(f.df, cat),
     returns_data |-> f.returns_data,
     shared |-> FALSE]

\* data["cd_produto"] = normalize_product_codes(...).  The assignment of
\* data["periodo"] beside it rewrites the periods as text, one to one; the
\* rows here keep the period itself.
AssignColumns(rows) ==
    [i \in 1..Len(rows) |-> [rows[i] EXCEPT !.cd = NormalizeText(@)]]

\* PeriodFilter.apply; a bound of NaT is None.  The comparisons with a
\* missing date are False.
PeriodFilterApply(df, start, end) ==
    IF start = NaT /\ end = NaT THEN df
    ELSE SelectSeq(df, LAMBDA r :
             /\ start # NaT => (r.data # NaT /\ r.data >= start)
             /\ end # NaT => (r.data # NaT /\ r.data <= end))

SharedInit ==
    /\ sales \in Frames(SalesRows({"A"}, {"X", "Y"}, {"L1"},
                                  {<<"1">>, <<"1", ".", "0">>}, {NaT, 1, 3},
                                  {1}), MaxSales)
    /\ returns \in Frames(ReturnRows({"A"}, {""}, {"X"}, {<<"1">>}, {"d"},
                                     {1}, {3}, {1}), MaxReturns)
    /\ category = ""
    /\ pcV = "shared"
    /\ loaded = Enrich(sales, returns)
    /\ retViews = NoViews
    /\ retTables = NoViews
    /\ focusMerged = NoFocus
    /\ focusTables = NoFocus
    /\ arg = NoShared
    /\ ret = NoShared
    /\ pcF = "off"

\* DatasetManager.load_filtered(period_filter)
LoadFiltered ==
    /\ pcV = "shared"
    /\ \E start, end \in {NaT, 1, 3} :
         arg' = [by |-> "load_filtered",
                 df |-> PeriodFilterApply(loaded.df, start, end),
                 returns_data |-> loaded.returns_data]
    /\ UNCHANGED <<ret, pcF, viewVars, normVars, marginVars, cacheVars,
                   raceVars, loadVars>>

\* one of the five builders on the loaded frame: the filter, then the
\* column assignments on what the filter gave
BuildOnLoaded ==
    /\ pcV = "shared"
    /\ \E b \in Builders, cat \in {"", "X"} :
         LET data == FilterByCategoryObject(loaded, cat)
             written == IF b \in WritingBuilders THEN AssignColumns(data.df)
                        ELSE data.df
         IN  /\ ret' = [by |-> b, df |-> written,
                        returns_data |-> data.returns_data]
             /\ loaded' = IF data.shared /\ b \in WritingBuilders
                          THEN [loaded EXCEPT !.df = written]
                          ELSE loaded
    /\ UNCHANGED <<arg, pcF, sales, returns, category, pcV, retViews,
                   retTables, focusMerged, focusTables, normVars, marginVars,
                   cacheVars, raceVars, loadVars>>

\* one of the five builders on the frame load_filtered returned
BuildOnFiltered ==
    /\ pcV = "shared"
    /\ arg.by = "load_filtered"
    /\ \E b \in Builders, cat \in {"", "X"} :
         LET data == FilterByCategoryObject(arg, cat)
             written == IF b \in WritingBuilders THEN AssignColumns(data.df)
                        ELSE data.df
         IN  /\ ret' = [by |-> b, df |-> written,
                        returns_data |-> data.returns_data]
             /\ arg' = IF data.shared /\ b \in WritingBuilders
                       THEN [arg EXCEPT !.df = written]
                       ELSE arg
    /\ UNCHANGED <<pcF, viewVars, normVars, marginVars, cacheVars, raceVars,
                   loadVars>>

-----------------------------------------------------------------------------
(* The parts of the state a specification does not use *)

LoadIdle ==
    /\ wb = NoWorkbook
    /\ cb = "none"
    /\ ldr = [NoLoader EXCEPT !.pc = "off"]

CallIdle ==
    /\ arg = <<>>
    /\ ret = <<>>
    /\ pcF = "off"

RestIdle == RaceIdle /\ LoadIdle /\ CallIdle

-----------------------------------------------------------------------------
(* Specifications *)

NormNext == NormalizeOnce \/ NormalizeTwice

InitNorm == NormInit /\ MarginIdle /\ CacheIdle /\ ViewIdle /\ RestIdle

SpecNorm == InitNorm /\ [][NormNext]_vars

MarginNext == CoerceMargin \/ CoerceMarginAgain

InitMargin == MarginInit /\ NormIdle /\ CacheIdle /\ ViewIdle /\ RestIdle

SpecMargin == InitMargin /\ [][MarginNext]_vars

CacheNext ==
    \/ StartLoad \/ CheckExists \/ CheckMtime \/ ReadPickle \/ ReadSource
    \/ StoreCache \/ Tick \/ ModifySource \/ DeleteCache \/ CorruptCache

InitCache == CacheInit /\ NormIdle /\ MarginIdle /\ ViewIdle /\ RestIdle

SpecCache == InitCache /\ [][CacheNext]_vars

TwoFilesNext ==
    \/ \E f \in SourceFiles : LoadFile(f)
    \/ \E f \in SourceFiles : SaveFile(f)
    \/ TickFiles

InitTwoFiles ==
    TwoFilesInit /\ NormIdle /\ MarginIdle /\ ViewIdle /\ RestIdle

SpecTwoFiles == InitTwoFiles /\ [][TwoFilesNext]_vars

RaceNext == CacheNext \/ OtherStoreOpen \/ OtherStoreClose

InitRace ==
    RaceInit /\ NormIdle /\ MarginIdle /\ ViewIdle /\ LoadIdle /\ CallIdle

SpecRace == InitRace /\ [][RaceNext]_vars

LoadNext ==
    \/ ResolveSheets
    \/ CacheHit
    \/ ReportStart
    \/ ReadSheet
    \/ EnrichFrame
    \/ StoreSnapshot
    \/ BuildPotentialSku

InitLoad ==
    LoadInit /\ NormIdle /\ MarginIdle /\ CacheIdle /\ ViewIdle /\ RaceIdle
    /\ CallIdle

SpecLoad == InitLoad /\ [][LoadNext]_vars

InitId ==
    IdInit /\ NormIdle /\ MarginIdle /\ CacheIdle /\ ViewIdle /\ RaceIdle
    /\ LoadIdle

SpecId == InitId /\ [][PrepareReturnRow]_vars

InitLowCost ==
    LowCostInit /\ NormIdle /\ MarginIdle /\ CacheIdle /\ ViewIdle /\ RaceIdle
    /\ LoadIdle

SpecLowCost == InitLowCost /\ [][BuildLowCost]_vars

InitTopHistory ==
    TopHistoryInit /\ NormIdle /\ MarginIdle /\ CacheIdle /\ ViewIdle
    /\ RaceIdle /\ LoadIdle

SpecTopHistory == InitTopHistory /\ [][BuildTopRanking]_vars

InitFocusCodes ==
    FocusCodesInit /\ NormIdle /\ MarginIdle /\ CacheIdle /\ ViewIdle
    /\ RaceIdle /\ LoadIdle

SpecFocusCodes == InitFocusCodes /\ [][BuildFocusByCodes]_vars

InitTotals ==
    TotalsInit /\ NormIdle /\ MarginIdle /\ CacheIdle /\ ViewIdle
    /\ RaceIdle /\ LoadIdle

SpecTotals == InitTotals /\ [][BuildTotals]_vars

InitPotential ==
    PotentialInit /\ NormIdle /\ MarginIdle /\ CacheIdle /\ ViewIdle
    /\ RaceIdle /\ LoadIdle

SpecPotential == InitPotential /\ [][BuildPotential]_vars

SharedNext == LoadFiltered \/ BuildOnLoaded \/ BuildOnFiltered

InitShared ==
    SharedInit /\ NormIdle /\ MarginIdle /\ CacheIdle /\ RaceIdle
    /\ LoadIdle

SpecShared == InitShared /\ [][SharedNext]_vars

ViewNext == LoadDataset \/ BuildReturnAnalysis \/ BuildProductFocus

InitInvoice == InvoiceInit /\ NormIdle /\ MarginIdle /\ CacheIdle /\ RestIdle

SpecInvoice == InitInvoice /\ [][ViewNext]_vars

InitCategory == CategoryInit /\ NormIdle /\ MarginIdle /\ CacheIdle /\ RestIdle

SpecCategory == InitCategory /\ [][ViewNext]_vars

InitRate == RateInit /\ NormIdle /\ MarginIdle /\ CacheIdle /\ RestIdle

SpecRate == InitRate /\ [][ViewNext]_vars

-----------------------------------------------------------------------------
(* Claims *)

\* the category filter lets the row through
InCategory(r) == category = "" \/ r.cat = category

\* the periods of the sales in scope: available_periods
SalePeriods == {PeriodOf(r.data) : r \in {x \in Range(sales) : InCategory(x)}}

\* the return rows a view of build_return_analysis takes in, by index
ViewScope(dateCol) ==
    {i \in DOMAIN returns :
        /\ sales # <<>>
        /\ InCategory(returns[i])
        /\ PeriodOf(returns[i][dateCol]) # NaT
        /\ (SalePeriods = {} \/ PeriodOf(returns[i][dateCol]) \in SalePeriods)}

\* the units returned of the (period, product, description) of row o
UnitsOfGroup(o, dateCol) ==
    SumQtd(SelectSeq(returns, LAMBDA x :
        /\ InCategory(x)
        /\ PeriodOf(x[dateCol]) = o.periodo
        /\ NormalizeText(x.cd) = o.cd
        /\ x.ds = o.ds))

C1_View(table, dateCol) ==
    /\ \A o \in table : o.itens_devolvidos = UnitsOfGroup(o, dateCol)
    /\ \A i, j \in ViewScope(dateCol) :
         ( /\ returns[i].nf = returns[j].nf
           /\ PeriodOf(returns[i][dateCol]) = PeriodOf(returns[j][dateCol])
           /\ NormalizeText(returns[i].cd) # NormalizeText(returns[j].cd) )
         => \E o1, o2 \in table :
              /\ o1 # o2
              /\ o1.periodo = PeriodOf(returns[i][dateCol])
              /\ o2.periodo = o1.periodo
              /\ o1.cd = NormalizeText(returns[i].cd)
              /\ o2.cd = NormalizeText(returns[j].cd)

\* C1: in both views of build_return_analysis two return records of the same
\* sale invoice and period but of different products give two rows, one per
\* product, each with the units returned of its own product only.
C1_ReturnRowsPerProductNotInvoice ==
    pcV = "returns" =>
        /\ C1_View(retTables.sale, "data_venda")
        /\ C1_View(retTables.ret, "data_devolucao")

C1_Witness ==
    /\ pcV = "returns"
    /\ Len(returns) = 2
    /\ returns[1].nf = returns[2].nf
    /\ returns[1].data_venda = returns[2].data_venda
    /\ NormalizeText(returns[1].cd) # NormalizeText(returns[2].cd)
    /\ returns[1].qtd # returns[2].qtd
    /\ Cardinality(retTables.sale) = 2
    /\ Cardinality(retTables.ret) = 2

\* the units returned of the (sale period, canonical product) of a sales row
ReturnedForByPeriod(r, rets) ==
    SumQtd(SelectSeq(rets, LAMBDA x :
        PeriodOf(x.data_venda) = PeriodOf(r.data)
        /\ NormalizeText(x.cd) = NormalizeText(r.cd)))

\* C2 (as claimed): the loader attaches to every sales row the units of the
\* return records of the row's (period, canonical product), not of its
\* (invoice, product).
C2_LoaderJoinsOnPeriodProduct ==
    pcV \in {"loaded", "returns"} =>
        \A i \in DOMAIN loaded.df :
            loaded.df[i].qtd_devolvido = ReturnedForByPeriod(sales[i], returns)

\* C3 (as claimed): with the sales filtered to a category, every row of both
\* tables of build_return_analysis has a product sold in that category.
C3_ReturnRowsWithinSalesScope ==
    (pcV = "returns" /\ category # "") =>
        \A o \in retTables.sale \cup retTables.ret :
            \E r \in Range(FilterByCategory(loaded.df, category)) :
                NormalizeText(r.cd) = o.cd

\* the rate is a number, not negative, returned / sold or zero
RateAsClaimed(rate, devol, sold) ==
    /\ rate.kind = "num"
    /\ rate.d > 0
    /\ rate.n >= 0
    /\ IF sold > 0 THEN rate.n * sold = devol * rate.d ELSE rate.n = 0

\* C4 (as claimed): in every row of the loader, of the return view and of the
\* product-focus merge the return rate is a number, never NaN or infinite,
\* not negative, equal to units returned / units sold when units sold > 0 and
\* to 0 otherwise.
C4_ReturnRateDefined ==
    /\ pcV \in {"loaded", "returns", "focus"} =>
         \A r \in Range(loaded.df) :
             RateAsClaimed(r.taxa_devolucao, r.qtd_devolvido, r.qtd)
    /\ pcV \in {"returns", "focus"} =>
         \A o \in retViews.sale \cup retViews.ret :
             RateAsClaimed(o.taxa_devolucao, o.itens_devolvidos, o.itens_vendidos)
    /\ pcV = "focus" =>
         \A t \in DOMAIN focusMerged : \A o \in focusMerged[t] :
             RateAsClaimed(o.taxa_devolucao, o.itens_devolvidos, o.itens_vendidos)

\* C5 (as claimed): product-code normalization is idempotent,
\* normalize(normalize(x)) = normalize(x) for every string or numeric x.
C5_NormalizeIdempotent == pcN = "twice" => nTwice = nOnce

\* the representations of the integral code n
ReprOf(n) ==
    {IntValue(n), FloatValue(2 * n)} \cup {StrValue(s) : s \in IntegralTexts(n)}

\* C6: the integer n, the float n.0, the text of n and the text of n followed
\* by '.' and one or more zeros all normalize to the decimal text of n.
C6_IntegralCodesShareOneKey ==
    pcN \in {"once", "twice"} =>
        \A n \in (-MaxCode)..MaxCode : nIn \in ReprOf(n) => nOnce = IntText(n)

C6_Witness ==
    /\ pcN = "once"
    /\ nIn = StrValue(<<"1", "2", ".", "0", "0">>)
    /\ nOnce = <<"1", "2">>

\* C7 (as claimed): the margin rule is idempotent for every non-negative input.
C7_MarginIdempotentAll ==
    (pcM = "twice" /\ ~mIn.nan /\ mIn.val >= 0) => mTwice = mOnce

\* C7 (amended): the margin rule is idempotent for every non-negative input
\* that is not greater than 100.
C7_MarginIdempotentUpTo100 ==
    (pcM = "twice" /\ ~mIn.nan /\ mIn.val >= 0 /\ mIn.val <= 100 * Unit)
        => mTwice = mOnce

C7_Witness ==
    /\ pcM = "twice"
    /\ mIn = NumCell(35 * Unit)
    /\ mOnce = NumCell(35 * 100 * 100)
    /\ mTwice = mOnce

C9_NoStaleSnapshot ==
    (pcL = "done" /\ how = "cache") =>
        /\ stamp.c >= stamp.s
        /\ (curClean => result = ReadAndEnrich(src.ver))

\* C10 (as claimed): no state of the snapshot file makes load() raise, and a
\* load that misses the snapshot returns the frame read from the workbook.
C10_CacheFailuresNeverFatal ==
    /\ pcL # "failed"
    /\ (pcL = "done" /\ how = "source") => result = work

\* C11 (as claimed): whatever other processes do to the snapshot file while
\* loads run, no load raises, and every load returns a complete frame, read
\* from a snapshot or from the workbook.
C11_RacesNeverFatal ==
    /\ pcL # "failed"
    /\ pcL = "done" => \E v \in 0..MaxVer : result = ReadAndEnrich(v)

\* load() with no callback set: what it raises or returns, and the snapshot
\* it leaves
LoadOutcome(w) ==
    LET salesSheets == ResolveSheetNames(w.sheets, SheetName)
        returnSheets == ResolveSheetNames(w.sheets, ReturnPrefix)
        raised(e) == [err |-> e, out |-> "none", stored |-> "none"]
    IN  IF ~w.exists THEN raised("FileNotFoundError")
        ELSE IF salesSheets = <<>> THEN raised("ValueError")
        ELSE IF w.snapshot
        THEN [err |-> "none",
              out |-> Enriched(w, salesSheets, returnSheets),
              stored |-> "none"]
        ELSE IF EnrichRaises(w, returnSheets) THEN raised("KeyError")
        ELSE [err |-> "none",
              out |-> Enriched(w, salesSheets, returnSheets),
              stored |-> Enriched(w, salesSheets, returnSheets)]

\* C12: a progress callback that raises on any of its calls never ends
\* load(): a finished load has raised, returned and stored exactly what the
\* load of the same workbook with no callback does.
C12_CallbackNeverAborts ==
    ldr.pc \in {"done", "raised"} =>
        [err |-> ldr.err, out |-> ldr.out, stored |-> ldr.stored]
            = LoadOutcome(wb)

\* a load that read two sheets and enriched them, with a callback that
\* raises, has finished and stored its frame
C12_Witness ==
    /\ cb = "raises"
    /\ ldr.pc = "done"
    /\ Len(ldr.log) = 4
    /\ ldr.stored = ldr.out

\* C13 (as claimed): load() raises only when the workbook file is missing
\* or no sheet matches the sales prefix.
C13_RaisesOnlyTwoWays ==
    ldr.pc = "raised" =>
        \/ ~wb.exists
        \/ \A i \in 1..Len(wb.sheets) : ~StartsWith(wb.sheets[i], SheetName)

\* the name is the prefix followed by digits only (none for the prefix
\* itself)
PrefixThenDigits(name, prefix) ==
    /\ StartsWith(name, prefix)
    /\ LeadRun(SubSeq(name, Len(prefix) + 1, Len(name)), TRUE)
           = Len(name) - Len(prefix)

\* C14 (as claimed): the sales sheets load() reads are exactly the sheets
\* named by the prefix alone or the prefix and a numeric suffix, and they
\* are read in the order of their numbers.
C14_SheetsReadMatchPrefixAndNumber ==
    ldr.pc \notin {"off", "start", "raised"} =>
        /\ \A i \in 1..Len(wb.sheets) :
               (\E j \in 1..Len(ldr.sales) : ldr.sales[j] = wb.sheets[i])
                   <=> PrefixThenDigits(wb.sheets[i], SheetName)
        /\ \A i, j \in 1..Len(ldr.sales) :
               i < j =>
                   NumVal(SubSeq(ldr.sales[i], Len(SheetName) + 1,
                                 Len(ldr.sales[i])))
                       <= NumVal(SubSeq(ldr.sales[j], Len(SheetName) + 1,
                                        Len(ldr.sales[j])))

\* C17: the pedido_devolucao_id of a return row is its own return invoice
\* number, trimmed, when the cell holds a text that is not blank and not the
\* text of a null ("nan", "None"); in every other case, a null cell
\* included, it is the trimmed text of the invoice number of the sale.
C17_ReturnIdOwnInvoiceElseSale ==
    pcF = "done" =>
        LET own == StripText(arg[1].txt)
        IN  ret = IF /\ arg[1].kind = "str"
                     /\ own \notin {<<>>, <<"n", "a", "n">>,
                                    <<"N", "o", "n", "e">>}
                  THEN own
                  ELSE StripText(AsTypeStr(arg[2]))

\* a return row with no return invoice number got the trimmed invoice number
\* of its sale
C17_Witness ==
    /\ pcF = "done"
    /\ arg[1] = NullValue
    /\ arg[2] = StrValue(<<" ", "1", " ">>)
    /\ ret = <<"1">>

\* the number of distinct pedido_devolucao_id among return rows
DistinctOrders(rows) == Cardinality({x.pedido_devolucao_id : x \in rows})

\* C18 (as claimed): in the overall, the monthly and the daily table of the
\* product focus, pedidos_devolvidos of a row is the number of distinct
\* pedido_devolucao_id among the return rows of its group.
C18_OrderCountIsDistinctIds ==
    pcV = "focus" =>
        LET kept == Range(FocusReturns(FocusFrame(loaded, category), category,
                                       loaded.returns_data))
        IN  /\ \A r \in focusMerged.resumo :
                   r.pedidos_devolvidos
                       = DistinctOrders({x \in kept : x.cd = r.cd})
            /\ \A r \in focusMerged.mensal :
                   r.pedidos_devolvidos
                       = DistinctOrders({x \in kept :
                             /\ x.cd = r.cd
                             /\ x.periodo_venda
                                    = ColumnOf(r, MensalGroupCols, "periodo")})
            /\ \A r \in focusMerged.diaria :
                   r.pedidos_devolvidos
                       = DistinctOrders({x \in kept :
                             /\ x.cd = r.cd
                             /\ x.data_venda
                                    = ColumnOf(r, DiariaGroupCols, "data")})

\* C15 (as claimed): on a frame load() returns that has the canonical and
\* the derived columns and no others, the demand-drop builder returns its
\* tables and does not raise.
C15_BuildersNeverRaise ==
    wb.extraCols = {} => ldr.pc # "builder raised"

\* C16 (as claimed): the table of a selection that leaves no row has the
\* columns, in their order, of the table of a selection that leaves rows.
C16_EmptyTablesKeepColumns ==
    pcF = "done" => ret.columns = LowCostFinalOrder

\* the rows of the frame in the category asked for, aggregated by item
C20_Items ==
    LowCostAggregate(FilterByCategory(arg.df, arg.category),
                     arg.returns_totals)

C19_RankedHaveThreeMonths ==
    pcF = "done" =>
        \A i \in ret :
            Cardinality({PeriodOf(r.data) :
                r \in {x \in Range(FilterByCategory(arg.df, arg.category)) :
                          x.an = i.cd_anuncio /\ x.data # NaT}})
                >= MIN_MONTHS_RECURRENCE

\* C27: the notifications of a load that returned have one total >= 1 and a
\* processed value that never decreases, never exceeds the total and ends
\* equal to it; a load that read the workbook reported 0 first and then one
\* more per sheet and after the enrichment, and a load served by the
\* snapshot reported (total, total) only.
C27_ProgressSequence ==
    (ldr.pc = "done" /\ cb # "none") =>
        LET log == ldr.log
            total == log[1][2]
        IN  /\ log # <<>>
            /\ total >= 1
            /\ \A i \in 1..Len(log) :
                   log[i][2] = total /\ log[i][1] <= total /\ log[i][1] >= 0
            /\ \A i \in 1..(Len(log) - 1) : log[i][1] <= log[i + 1][1]
            /\ log[Len(log)][1] = total
            /\ IF wb.snapshot
               THEN log = <<<<total, total>>>>
               ELSE /\ Len(log) = Len(ldr.sales) + Len(ldr.rets) + 2
                    /\ \A i \in 1..Len(log) : log[i][1] = i - 1

\* a load that read one sales sheet and one return sheet reported 0, 1, 2
\* and 3 of 3
C27_Witness ==
    /\ ldr.pc = "done"
    /\ cb = "ok"
    /\ Len(ldr.sales) = 1
    /\ Len(ldr.rets) = 1
    /\ ldr.log = <<<<0, 3>>, <<1, 3>>, <<2, 3>>, <<3, 3>>>>

\* C30 (as claimed): with no negative return quantity, the sum of
\* qtd_devolvido over the rows of the loaded sales frame is at most the sum
\* of the units of the return rows.
C30_ReturnedUnitsCountedOnce ==
    (pcV # "raw" /\ \A i \in 1..Len(returns) : returns[i].qtd >= 0) =>
        SumCol(loaded.df, "qtd_devolvido") <= SumQtd(returns)

\* C22 (as claimed): the return-rate pipeline marks the (period, product)
\* rows with a rate above 20% and units sold above 0.  Its tables have no
\* column for a mark, so a row is marked by being in a table: every row of
\* the two tables has a rate above 1/5 and units sold above 0.
C22_OnlyRowsAboveThreshold ==
    pcV \in {"returns", "focus"} =>
        \A r \in retViews.sale \cup retViews.ret :
            /\ r.itens_vendidos > 0
            /\ r.taxa_devolucao.kind = "num"
            /\ 5 * r.taxa_devolucao.n > r.taxa_devolucao.d

\* C29 (as claimed): each table of build_return_analysis has at most one
\* row per (period, product code).
C29_OneRowPerPeriodProduct ==
    pcV \in {"returns", "focus"} =>
        \A t \in {retViews.sale, retViews.ret} :
            \A r1, r2 \in t :
                (r1.periodo = r2.periodo /\ r1.cd = r2.cd) => r1 = r2

\* the focus frame of the sales rows in scope whose product code is one of
\* the codes given
C23_ByProductCode ==
    LET ld == Enrich(arg.df, <<>>)
        codes == {StripText(c) : c \in arg.product_codes} \ {<<>>}
    IN  FocusFrame([ld EXCEPT !.df = SelectSeq(ld.df, LAMBDA r :
                                         NormalizeText(r.cd) \in codes)],
                   arg.category)

\* C23 (as claimed): given a list of product codes, the views of the
\* product focus are computed from exactly the sales rows in scope whose
\* cd_produto is in the list.
C23_FocusRowsByProductCode ==
    (pcF = "done" /\ {StripText(c) : c \in arg.product_codes} # {<<>>}
                  /\ arg.product_codes # {}) =>
        /\ ret.focus = C23_ByProductCode
        /\ ret.resumo = AggregateMetrics(C23_ByProductCode, ResumoGroupCols)

\* C25 (as claimed): for every input frame and every value of
\* allowed_periods (a non-empty set, an empty set, or none), no row of the
\* period-by-product totals has the missing-period sentinel as its period,
\* and the rows whose period is missing contribute to no group.
C25_NoMissingPeriodGroup ==
    pcF = "done" =>
        /\ \A t \in ret : t.periodo # PeriodText(NaT)
        /\ SumOver(ret, "pedidos_devolvidos") <=
               Len(SelectSeq(arg.df, LAMBDA x : x.periodo_venda # NaT))

\* the texts of the real calendar months that have sales in scope, in
\* chronological order
C28_RealMonths ==
    LET months == {PeriodOf(r.data) :
                     r \in Range(FilterByCategory(arg.df, arg.category))}
                      \ {NaT}
    IN  [i \in 1..Cardinality(months) |->
            PeriodText(CHOOSE m \in months :
                           Cardinality({k \in months : k < m}) = i - 1)]

\* C28 (as claimed): the recent and the historical window are disjoint,
\* together they hold every real calendar month that has sales in scope,
\* in default mode the recent window is exactly the chronologically latest
\* months, and the missing period is in neither window.
C28_WindowsPartitionRealMonths ==
    pcF = "done" =>
        LET rec == Range(ret.recent_periods)
            hist == Range(ret.historical_periods)
            n == Len(C28_RealMonths)
        IN  /\ rec \cap hist = {}
            /\ Range(C28_RealMonths) \subseteq rec \cup hist
            /\ PeriodText(NaT) \notin rec \cup hist
            /\ arg.recent_periods = <<>> =>
                   ret.recent_periods =
                       SubSeq(C28_RealMonths, n - Len(ret.recent_periods) + 1,
                              n)

\* the units listing c sold in each of the real months, oldest first
C21_MonthlyVolumes(c) ==
    [i \in 1..Len(C28_RealMonths) |->
        SumQtd(SelectSeq(FilterByCategory(arg.df, arg.category), LAMBDA r :
                   r.an = c /\ PeriodText(PeriodOf(r.data))
                                   = C28_RealMonths[i]))]

\* listing c has the volumes of the scenario: 120, 100, 110, 115, 105 in
\* the historical months, 55, 45, 35 in the recent window, and no returns
\* in the recent window
C21_Scenario(c) ==
    /\ arg.recent_periods = <<>>
    /\ arg.recent_window = RECENT_WINDOW
    /\ C21_MonthlyVolumes(c) = ClaimedVolumes
    /\ \A i \in DOMAIN arg.returns_data :
           arg.returns_data[i].cd = c =>
               arg.returns_data[i].periodo_venda
                   <= Len(ClaimedVolumes) - RECENT_WINDOW

\* C21 (as claimed): with the default parameters, in any dataset with a
\* product of historical monthly volumes 120, 100, 110, 115, 105,
\* recent-window volumes 55, 45, 35 and no returns in the recent window,
\* the product is in 'potenciais' with the drop ratio (110 - 45) / 110 and
\* ranks above every product whose drop ratio is 0.10.
C21_ScenarioIsCandidate ==
    pcF = "done" =>
        \A c \in {r.an : r \in Range(arg.df)} :
            C21_Scenario(c) =>
                \E i \in DOMAIN ret.potenciais :
                    /\ ret.potenciais[i].an = c
                    /\ FracEq(ret.potenciais[i].queda_pct_qtd,
                              Frac(110 - 45, 110))
                    /\ \A j \in DOMAIN ret.potenciais :
                           FracEq(ret.potenciais[j].queda_pct_qtd,
                                  Frac(1, 10)) => i < j

\* C26 (as claimed): a load of a workbook never returns a snapshot that was
\* computed from another workbook, also when the two share the stem, the
\* sheet names and the cache directory.
C26_LoadReturnsOwnFrame ==
    pcL \in SourceFiles => result.rows[1] = pcL

=============================================================================
